---------------------------- MODULE Spec2Model ----------------------------
(***************************************************************************)
(* Model of the barkbase maintenance scripts: regular-expression rewriting *)
(* of source text (dark-mode class injectors).  A text is a TLA+ string,   *)
(* i.e. a sequence of characters; the regular expressions of the scripts   *)
(* are evaluated character by character as Python's re module does.        *)
(***************************************************************************)
EXTENDS Naturals, Sequences, FiniteSets

VARIABLES
    orig,           \* text of the file before the first run
    content,        \* text of the file on disk now
    prev,           \* text of the file before the last run
    script,         \* the script (function) this behaviour runs
    ret,            \* value returned by the last run
    wrote,          \* whether the last run opened the file for writing
    runs,           \* number of runs so far
    files0,         \* directory walk: path -> text before the walk
    files,          \* directory walk: path -> text on disk now
    faults,         \* directory walk: path -> "ok", "read" or "write" (the open that fails)
    todo,           \* directory walk: paths rglob has still to yield
    results,        \* directory walk: path -> value update_file / fix_file returned
    opened,         \* directory walk: paths opened for writing
    errors,         \* directory walk: paths an error line was printed for
    total_files,    \* main(): total_files / total_files_updated
    total_changes,  \* main(): total_changes / total_lines_updated
    updated_files,  \* main(): updated_files / all_updates
    called,         \* directory walk: paths update_file / fix_file was called for
    aborted         \* an exception left the loop of the script

filevars == <<orig, content, prev, ret, wrote, runs>>

walkvars == <<files0, files, faults, todo, results, opened, errors,
              total_files, total_changes, updated_files, called, aborted>>

vars == <<orig, content, prev, script, ret, wrote, runs, files0, files, faults, todo,
          results, opened, errors, total_files, total_changes, updated_files,
          called, aborted>>

(***************************************************************************)
(* Bounds of the model.                                                    *)
(***************************************************************************)
MaxFrags == 2   \* an input text is a concatenation of at most MaxFrags fragments
MaxRuns == 2    \* a script is run at most MaxRuns times on the file

(***************************************************************************)
(* Characters and the primitives of the regular expressions.               *)
(***************************************************************************)
WordChars ==
    {"a","b","c","d","e","f","g","h","i","j","k","l","m","n","o","p","q","r",
     "s","t","u","v","w","x","y","z",
     "A","B","C","D","E","F","G","H","I","J","K","L","M","N","O","P","Q","R",
     "S","T","U","V","W","X","Y","Z",
     "0","1","2","3","4","5","6","7","8","9","_"}

SpaceChars == {" ", "\n", "\t", "\r"}

\* the character at position i of t, "" outside the text
Ch(t, i) == IF i >= 1 /\ i <= Len(t) THEN SubSeq(t, i, i) ELSE ""

IsWord(c) == c \in WordChars

IsSpace(c) == c \in SpaceChars

\* \b between positions i-1 and i
WordBoundary(t, i) == IsWord(Ch(t, i - 1)) # IsWord(Ch(t, i))

\* the literal p occurs in t at position i
LitAt(t, i, p) ==
    /\ i >= 1
    /\ i + Len(p) - 1 <= Len(t)
    /\ SubSeq(t, i, i + Len(p) - 1) = p

\* Python's  p in t
Contains(t, p) == \E i \in 1..(Len(t) + 1) : LitAt(t, i, p)

\* position of the first occurrence of p in t (str.find + 1), 0 when absent
Find(t, p) ==
    IF Contains(t, p)
    THEN CHOOSE i \in 1..(Len(t) + 1) :
            LitAt(t, i, p) /\ \A j \in 1..(i - 1) : ~LitAt(t, j, p)
    ELSE 0

\* \s+dark: matches at position j
WsDarkAt(t, j) ==
    \E k \in (j + 1)..Len(t) :
        /\ \A m \in j..(k - 1) : IsSpace(Ch(t, m))
        /\ LitAt(t, k, "dark:")

\* the negative lookahead of a rule, evaluated at position j
LookaheadOk(la, t, j) ==
    CASE la = "ws" -> ~WsDarkAt(t, j)           \* (?!\s+dark:)
      [] la = "sp" -> ~LitAt(t, j, " dark:")    \* (?! dark:)
      [] OTHER -> TRUE

(***************************************************************************)
(* A rule is a pattern  [\b] pre (alt1|alt2|...) post [\b] [lookahead]     *)
(* with a template  rpre \1 rpost.  A literal pattern has the single       *)
(* alternative "".                                                         *)
(***************************************************************************)
Rule(pre, alts, post, lb, tb, la, rpre, rpost) ==
    [pre |-> pre, alts |-> alts, post |-> post, lb |-> lb, tb |-> tb,
     la |-> la, rpre |-> rpre, rpost |-> rpost]

\* variant of GuardedRule: the negative lookahead is left out of the pattern
UnguardedRule(pat, rep) == Rule(pat, <<"">>, "", TRUE, TRUE, "none", rep, "")

\* (r'\bPAT\b(?!\s+dark:)', 'REP')
GuardedRule(pat, rep) == Rule(pat, <<"">>, "", TRUE, TRUE, "ws", rep, "")

\* alternative a of rule r matches t at position i
AltMatches(r, t, i, a) ==
    LET s == r.pre \o r.alts[a] \o r.post
        e == i + Len(s)
    IN  /\ LitAt(t, i, s)
        /\ r.lb => WordBoundary(t, i)
        /\ r.tb => WordBoundary(t, e)
        /\ LookaheadOk(r.la, t, e)

\* the alternative with which r matches at i (the first one, as re tries
\* them in order), 0 when r does not match at i
MatchAlt(r, t, i) ==
    IF LitAt(t, i, r.pre) /\ \E a \in 1..Len(r.alts) : AltMatches(r, t, i, a)
    THEN CHOOSE a \in 1..Len(r.alts) :
            AltMatches(r, t, i, a) /\ \A b \in 1..(a - 1) : ~AltMatches(r, t, i, b)
    ELSE 0

MatchLen(r, a) == Len(r.pre) + Len(r.alts[a]) + Len(r.post)

\* variant of Render: the template names a fixed color instead of group 1
RenderFirstAlt(r, a) == r.rpre \o r.alts[1] \o r.rpost

Render(r, a) == r.rpre \o r.alts[a] \o r.rpost

\* position of the leftmost match of r in t at or after i, 0 when none
NextMatch(r, t, i) ==
    LET hits == {p \in i..Len(t) : MatchAlt(r, t, p) # 0}
    IN  IF hits = {} THEN 0
        ELSE CHOOSE p \in hits : \A h \in hits : p <= h

\* re.subn(pattern, template, t): one left-to-right scan of t for
\* non-overlapping matches; the text between two matches is copied, a match
\* is replaced by the rendered template and the scan resumes after it
RECURSIVE SubnFrom(_, _, _, _, _)
SubnFrom(r, t, i, out, n) ==
    LET p == NextMatch(r, t, i)
    IN  IF p = 0 THEN [text |-> out \o SubSeq(t, i, Len(t)), n |-> n]
        ELSE LET a == MatchAlt(r, t, p)
             IN  SubnFrom(r, t, p + MatchLen(r, a),
                          out \o SubSeq(t, i, p - 1) \o Render(r, a), n + 1)

Subn(r, t) == SubnFrom(r, t, 1, "", 0)

\* re.sub(pattern, template, t)
Sub(r, t) == Subn(r, t).text

\* len(re.findall(pattern, t))
RECURSIVE FindAllFrom(_, _, _, _)
FindAllFrom(r, t, i, n) ==
    LET p == NextMatch(r, t, i)
    IN  IF p = 0 THEN n
        ELSE FindAllFrom(r, t, p + MatchLen(r, MatchAlt(r, t, p)), n + 1)

\* variant of FindAllCount: the occurrences are counted without the lookahead
FindAllCountUnguarded(r, t) == FindAllFrom([r EXCEPT !.la = "none"], t, 1, 0)

FindAllCount(r, t) == FindAllFrom(r, t, 1, 0)

\* re.search(pattern, t): position of the leftmost match, 0 when none
Search(r, t) == NextMatch(r, t, 1)

\* t.replace(old, new, 1)
ReplaceFirst(t, old, new) ==
    LET i == Find(t, old)
    IN  IF i = 0 THEN t
        ELSE SubSeq(t, 1, i - 1) \o new \o SubSeq(t, i + Len(old), Len(t))

\* the outcome of update_file / fix_file: the text left on disk, the value
\* returned, whether the file was opened for writing, whether the except
\* clause printed an error; the function returned (it did not raise)
Outcome(c, r, w, e) ==
    [content |-> c, ret |-> r, wrote |-> w, err |-> e, raised |-> FALSE]

\* an exception that nothing catches leaves the function: the file is as it was
Raised(c) == [content |-> c, ret |-> 0, wrote |-> FALSE, err |-> FALSE, raised |-> TRUE]

(***************************************************************************)
(* docs/Utilities/fix_all_dark_mode.py                                     *)
(***************************************************************************)
fix_all_dark_mode_replacements == <<
    GuardedRule("bg-white", "bg-white dark:bg-surface-primary"),
    GuardedRule("bg-gray-50", "bg-gray-50 dark:bg-surface-secondary"),
    GuardedRule("bg-gray-100", "bg-gray-100 dark:bg-surface-secondary"),
    GuardedRule("bg-gray-200", "bg-gray-200 dark:bg-surface-border"),
    GuardedRule("text-gray-900", "text-gray-900 dark:text-text-primary"),
    GuardedRule("text-gray-800", "text-gray-800 dark:text-text-primary"),
    GuardedRule("text-gray-700", "text-gray-700 dark:text-text-primary"),
    GuardedRule("text-gray-600", "text-gray-600 dark:text-text-secondary"),
    GuardedRule("text-gray-500", "text-gray-500 dark:text-text-secondary"),
    GuardedRule("text-gray-400", "text-gray-400 dark:text-text-tertiary"),
    GuardedRule("border-gray-200", "border-gray-200 dark:border-surface-border"),
    GuardedRule("border-gray-300", "border-gray-300 dark:border-surface-border") >>

\* variant of SubnLoop: the table is walked from its last rule to its first
RECURSIVE SubnLoopBackwards(_, _, _, _)
SubnLoopBackwards(rules, k, text, changes) ==
    IF k > Len(rules) THEN [text |-> text, n |-> changes]
    ELSE LET res == Subn(rules[Len(rules) + 1 - k], text)
         IN  IF res.n > 0
             THEN SubnLoopBackwards(rules, k + 1, res.text, changes + res.n)
             ELSE SubnLoopBackwards(rules, k + 1, text, changes)

\* for pattern, replacement in replacements: new, count = re.subn(...);
\* if count > 0: content = new; changes_made += count
RECURSIVE SubnLoop(_, _, _, _)
SubnLoop(rules, k, text, changes) ==
    IF k > Len(rules) THEN [text |-> text, n |-> changes]
    ELSE LET res == Subn(rules[k], text)
         IN  IF res.n > 0
             THEN SubnLoop(rules, k + 1, res.text, changes + res.n)
             ELSE SubnLoop(rules, k + 1, text, changes)

\* variant of WriteIfChanged: the file is written back whether or not the
\* content changed
WriteAlways(c, new, count, zero, fault) ==
    IF fault # "ok" THEN Outcome(c, zero, FALSE, TRUE)
    ELSE Outcome(new, IF new # c THEN count ELSE zero, TRUE, FALSE)

\* the tail of update_file: write when the content changed and return the
\* count, else return 0; an exception (fault) is caught and returns 0
WriteIfChanged(c, new, count, zero, fault) ==
    IF fault = "read" THEN Outcome(c, zero, FALSE, TRUE)
    ELSE IF new # c
         THEN IF fault = "write" THEN Outcome(c, zero, FALSE, TRUE)
              ELSE Outcome(new, count, TRUE, FALSE)
         ELSE Outcome(c, zero, FALSE, FALSE)

fix_all_dark_mode_update_file(c, fault) ==
    LET res == SubnLoop(fix_all_dark_mode_replacements, 1, c, 0)
    IN  WriteIfChanged(c, res.text, res.n, 0, fault)

(***************************************************************************)
(* docs/Utilities/fix_theme_system_complete.py                             *)
(***************************************************************************)
\* the alternation (slate|zinc|...|rose) of the colour patterns
TailwindColors ==
    <<"slate", "zinc", "neutral", "stone", "red", "orange", "amber", "yellow",
      "lime", "green", "emerald", "teal", "cyan", "sky", "blue", "indigo",
      "violet", "purple", "fuchsia", "pink", "rose">>

fix_theme_system_complete_replacements == <<
    GuardedRule("bg-white", "bg-white dark:bg-surface-primary"),
    GuardedRule("bg-gray-50", "bg-gray-50 dark:bg-surface-secondary"),
    GuardedRule("bg-gray-100", "bg-gray-100 dark:bg-surface-secondary"),
    GuardedRule("bg-gray-200", "bg-gray-200 dark:bg-surface-border"),
    Rule("bg-", TailwindColors, "-50", TRUE, TRUE, "ws", "bg-", "-50 dark:bg-surface-primary"),
    Rule("bg-", TailwindColors, "-100", TRUE, TRUE, "ws", "bg-", "-100 dark:bg-surface-secondary"),
    GuardedRule("bg-primary-50", "bg-primary-50 dark:bg-surface-primary"),
    GuardedRule("bg-primary-100", "bg-primary-100 dark:bg-surface-secondary"),
    GuardedRule("bg-secondary-50", "bg-secondary-50 dark:bg-surface-primary"),
    GuardedRule("bg-secondary-100", "bg-secondary-100 dark:bg-surface-secondary"),
    GuardedRule("bg-success-50", "bg-success-50 dark:bg-surface-primary"),
    GuardedRule("bg-success-100", "bg-success-100 dark:bg-surface-secondary"),
    GuardedRule("bg-warning-50", "bg-warning-50 dark:bg-surface-primary"),
    GuardedRule("bg-warning-100", "bg-warning-100 dark:bg-surface-secondary"),
    GuardedRule("bg-error-50", "bg-error-50 dark:bg-surface-primary"),
    GuardedRule("bg-error-100", "bg-error-100 dark:bg-surface-secondary"),
    GuardedRule("bg-info-50", "bg-info-50 dark:bg-surface-primary"),
    GuardedRule("bg-info-100", "bg-info-100 dark:bg-surface-secondary"),
    GuardedRule("text-gray-900", "text-gray-900 dark:text-text-primary"),
    GuardedRule("text-gray-800", "text-gray-800 dark:text-text-primary"),
    GuardedRule("text-gray-700", "text-gray-700 dark:text-text-primary"),
    GuardedRule("text-gray-600", "text-gray-600 dark:text-text-secondary"),
    GuardedRule("text-gray-500", "text-gray-500 dark:text-text-secondary"),
    GuardedRule("text-gray-400", "text-gray-400 dark:text-text-tertiary"),
    GuardedRule("text-gray-300", "text-gray-300 dark:text-text-tertiary"),
    GuardedRule("border-gray-200", "border-gray-200 dark:border-surface-border"),
    GuardedRule("border-gray-300", "border-gray-300 dark:border-surface-border"),
    GuardedRule("divide-gray-100", "divide-gray-100 dark:divide-surface-border"),
    GuardedRule("divide-gray-200", "divide-gray-200 dark:divide-surface-border"),
    GuardedRule("hover:bg-gray-50", "hover:bg-gray-50 dark:hover:bg-surface-secondary"),
    GuardedRule("hover:bg-gray-100", "hover:bg-gray-100 dark:hover:bg-surface-secondary"),
    GuardedRule("hover:bg-white", "hover:bg-white dark:hover:bg-surface-primary") >>

fix_theme_system_complete_update_file(c, fault) ==
    LET res == SubnLoop(fix_theme_system_complete_replacements, 1, c, 0)
    IN  WriteIfChanged(c, res.text, res.n, 0, fault)

(***************************************************************************)
(* docs/Utilities/fix_colored_backgrounds.py                               *)
(***************************************************************************)
colors ==
    <<"slate", "gray", "zinc", "neutral", "stone",
      "red", "orange", "amber", "yellow", "lime", "green", "emerald", "teal",
      "cyan", "sky", "blue", "indigo", "violet", "purple", "fuchsia", "pink",
      "rose">>

semantic_colors == <<"primary", "secondary", "success", "warning", "error", "info">>

\* for color in cs: pattern = rf'\bbg-{color}-{shade}\b(?!\s+dark:)',
\* replacement = f'bg-{color}-{shade} {dark}'
ShadeRules(cs, shade, dark) ==
    [k \in 1..Len(cs) |->
        GuardedRule("bg-" \o cs[k] \o "-" \o shade,
                    "bg-" \o cs[k] \o "-" \o shade \o " " \o dark)]

\* the three loops of update_file, one after the other
fix_colored_backgrounds_update_file(c, fault) ==
    LET r50 == SubnLoop(ShadeRules(colors \o semantic_colors, "50",
                                   "dark:bg-surface-primary"), 1, c, 0)
        r100 == SubnLoop(ShadeRules(colors \o semantic_colors, "100",
                                    "dark:bg-surface-secondary"), 1, r50.text, r50.n)
        r200 == SubnLoop(ShadeRules(colors, "200", "dark:bg-surface-border"),
                         1, r100.text, r100.n)
    IN  WriteIfChanged(c, r200.text, r200.n, 0, fault)

(***************************************************************************)
(* docs/Utilities/fix_all_features.py                                      *)
(***************************************************************************)
fix_all_features_substitutions == <<
    GuardedRule("bg-white", "bg-white dark:bg-surface-primary"),
    GuardedRule("bg-gray-50", "bg-gray-50 dark:bg-surface-secondary"),
    GuardedRule("bg-gray-100", "bg-gray-100 dark:bg-surface-secondary"),
    GuardedRule("bg-gray-200", "bg-gray-200 dark:bg-surface-border"),
    GuardedRule("text-gray-900", "text-gray-900 dark:text-text-primary"),
    GuardedRule("text-gray-800", "text-gray-800 dark:text-text-primary"),
    GuardedRule("text-gray-700", "text-gray-700 dark:text-text-primary"),
    GuardedRule("text-gray-600", "text-gray-600 dark:text-text-secondary"),
    GuardedRule("text-gray-500", "text-gray-500 dark:text-text-secondary"),
    GuardedRule("text-gray-400", "text-gray-400 dark:text-text-tertiary"),
    GuardedRule("text-gray-300", "text-gray-300 dark:text-text-tertiary"),
    GuardedRule("border-gray-200", "border-gray-200 dark:border-surface-border"),
    GuardedRule("border-gray-300", "border-gray-300 dark:border-surface-border"),
    GuardedRule("divide-gray-100", "divide-gray-100 dark:divide-surface-border"),
    GuardedRule("divide-gray-200", "divide-gray-200 dark:divide-surface-border"),
    GuardedRule("hover:bg-gray-50", "hover:bg-gray-50 dark:hover:bg-surface-secondary"),
    GuardedRule("hover:bg-gray-100", "hover:bg-gray-100 dark:hover:bg-surface-secondary") >>

\* content = re.sub(...) for each substitution in turn
RECURSIVE SubLoop(_, _, _)
SubLoop(rules, k, text) ==
    IF k > Len(rules) THEN text
    ELSE LET new == Sub(rules[k], text)
         IN  IF new = text THEN SubLoop(rules, k + 1, text)
             ELSE SubLoop(rules, k + 1, new)

fix_all_features_update_file(c, fault) ==
    WriteIfChanged(c, SubLoop(fix_all_features_substitutions, 1, c), TRUE, FALSE, fault)

(***************************************************************************)
(* docs/Utilities/update_dark_mode.py and update_all_features.py (the same *)
(* REPLACEMENTS table and the same update_file)                            *)
(***************************************************************************)
\* (r'\bPAT\b(?! dark:)', r'REP')
SpaceGuardedRule(pat, rep) == Rule(pat, <<"">>, "", TRUE, TRUE, "sp", rep, "")

\* (r'\bPAT', r'REP') for the hardcoded colours
HardcodedRule(pat, rep) == Rule(pat, <<"">>, "", TRUE, FALSE, "none", rep, "")

update_dark_mode_REPLACEMENTS == <<
    SpaceGuardedRule("bg-white", "bg-white dark:bg-surface-primary"),
    SpaceGuardedRule("bg-gray-50", "bg-gray-50 dark:bg-surface-secondary"),
    SpaceGuardedRule("bg-gray-100", "bg-gray-100 dark:bg-surface-secondary"),
    SpaceGuardedRule("bg-gray-200", "bg-gray-200 dark:bg-surface-border"),
    SpaceGuardedRule("text-gray-900", "text-gray-900 dark:text-text-primary"),
    SpaceGuardedRule("text-gray-800", "text-gray-800 dark:text-text-primary"),
    SpaceGuardedRule("text-gray-700", "text-gray-700 dark:text-text-primary"),
    SpaceGuardedRule("text-gray-600", "text-gray-600 dark:text-text-secondary"),
    SpaceGuardedRule("text-gray-500", "text-gray-500 dark:text-text-secondary"),
    SpaceGuardedRule("text-gray-400", "text-gray-400 dark:text-text-tertiary"),
    SpaceGuardedRule("border-gray-200", "border-gray-200 dark:border-surface-border"),
    SpaceGuardedRule("border-gray-300", "border-gray-300 dark:border-surface-border"),
    HardcodedRule("bg-[#F5F6FA]", "bg-background-primary"),
    HardcodedRule("bg-[#FFFFFF]", "bg-white dark:bg-surface-primary"),
    HardcodedRule("text-[#263238]", "text-gray-900 dark:text-text-primary"),
    HardcodedRule("text-[#64748B]", "text-gray-600 dark:text-text-secondary"),
    HardcodedRule("border-[#E0E0E0]", "border-gray-200 dark:border-surface-border"),
    HardcodedRule("border-[#F5F6FA]", "border-gray-200 dark:border-surface-border") >>

update_all_features_REPLACEMENTS == update_dark_mode_REPLACEMENTS

\* new_content = re.sub(...); if new_content != content:
\*     replacement_count += len(re.findall(pattern, content)); content = new_content
RECURSIVE FindallLoop(_, _, _, _)
FindallLoop(rules, k, text, count) ==
    IF k > Len(rules) THEN [text |-> text, n |-> count]
    ELSE LET new == Sub(rules[k], text)
         IN  IF new # text
             THEN FindallLoop(rules, k + 1, new, count + FindAllCount(rules[k], text))
             ELSE FindallLoop(rules, k + 1, text, count)

update_dark_mode_update_file(c, fault) ==
    LET res == FindallLoop(update_dark_mode_REPLACEMENTS, 1, c, 0)
    IN  WriteIfChanged(c, res.text, res.n, 0, fault)

update_all_features_update_file(c, fault) ==
    LET res == FindallLoop(update_all_features_REPLACEMENTS, 1, c, 0)
    IN  WriteIfChanged(c, res.text, res.n, 0, fault)

(***************************************************************************)
(* Lines of a file.                                                        *)
(***************************************************************************)
Min(S) == CHOOSE x \in S : \A y \in S : x <= y

Max(S) == CHOOSE x \in S : \A y \in S : x >= y

\* position of the first occurrence of p in t at or after i, 0 when none
FindFrom(t, p, i) ==
    LET hits == {k \in i..Len(t) : LitAt(t, k, p)}
    IN  IF hits = {} THEN 0 ELSE Min(hits)

\* f.readlines(): the lines of t, each with its line terminator
RECURSIVE ReadLines(_)
ReadLines(t) ==
    IF t = "" THEN <<>>
    ELSE LET p == FindFrom(t, "\n", 1)
         IN  IF p = 0 THEN <<t>>
             ELSE <<SubSeq(t, 1, p)>> \o ReadLines(SubSeq(t, p + 1, Len(t)))

\* f.writelines(lines)
RECURSIVE WriteLines(_)
WriteLines(lines) ==
    IF lines = <<>> THEN "" ELSE Head(lines) \o WriteLines(Tail(lines))

\* t.split('\n')
RECURSIVE SplitLines(_)
SplitLines(t) ==
    LET p == FindFrom(t, "\n", 1)
    IN  IF p = 0 THEN <<t>>
        ELSE <<SubSeq(t, 1, p - 1)>> \o SplitLines(SubSeq(t, p + 1, Len(t)))

\* '\n'.join(lines)
RECURSIVE JoinLines(_)
JoinLines(lines) ==
    IF Len(lines) = 1 THEN Head(lines)
    ELSE Head(lines) \o "\n" \o JoinLines(Tail(lines))

\* variant of WriteIfLinesChanged: no try / except around the body of fix_file
WriteIfLinesChangedUncaught(c, new_lines, changed_lines, fault) ==
    IF fault = "read" THEN Raised(c)
    ELSE IF changed_lines # {}
         THEN IF fault = "write" THEN Raised(c)
              ELSE Outcome(WriteLines(new_lines), Cardinality(changed_lines), TRUE, FALSE)
         ELSE Outcome(c, 0, FALSE, FALSE)

\* the tail of a line-by-line fix_file: write when some line changed and
\* return the number of changed lines
WriteIfLinesChanged(c, new_lines, changed_lines, fault) ==
    IF fault = "read" THEN Outcome(c, 0, FALSE, TRUE)
    ELSE IF changed_lines # {}
         THEN IF fault = "write" THEN Outcome(c, 0, FALSE, TRUE)
              ELSE Outcome(WriteLines(new_lines), Cardinality(changed_lines), TRUE, FALSE)
         ELSE Outcome(c, 0, FALSE, FALSE)

(***************************************************************************)
(* docs/Utilities/fix_gradients_and_special_backgrounds.py                 *)
(***************************************************************************)
\* (r'PAT(?!\s+dark:)', 'REP') or (r'PAT', 'REP'): no word boundaries
UnboundedRule(pat, la, rep) == Rule(pat, <<"">>, "", FALSE, FALSE, la, rep, "")

FIXES == <<
    UnboundedRule("bg-gradient-to-r from-purple-50 to-pink-50", "none", "bg-gradient-to-r from-purple-50 to-pink-50 dark:from-surface-primary dark:to-surface-primary"),
    UnboundedRule("border-purple-200", "ws", "border-purple-200 dark:border-purple-900/30"),
    UnboundedRule("bg-blue-50", "ws", "bg-blue-50 dark:bg-blue-950/20"),
    UnboundedRule("border-blue-200", "ws", "border-blue-200 dark:border-blue-900/30"),
    UnboundedRule("text-blue-900", "ws", "text-blue-900 dark:text-blue-100"),
    UnboundedRule("text-blue-800", "ws", "text-blue-800 dark:text-blue-200"),
    UnboundedRule("text-blue-700", "ws", "text-blue-700 dark:text-blue-300"),
    UnboundedRule("text-blue-600", "ws", "text-blue-600 dark:text-blue-400"),
    UnboundedRule("text-purple-900", "ws", "text-purple-900 dark:text-purple-100"),
    UnboundedRule("text-purple-800", "ws", "text-purple-800 dark:text-purple-200"),
    UnboundedRule("text-purple-700", "ws", "text-purple-700 dark:text-purple-300"),
    UnboundedRule("text-purple-600", "ws", "text-purple-600 dark:text-purple-400"),
    UnboundedRule("border-purple-300", "ws", "border-purple-300 dark:border-purple-700"),
    UnboundedRule("bg-yellow-50", "ws", "bg-yellow-50 dark:bg-yellow-950/20"),
    UnboundedRule("bg-amber-50", "ws", "bg-amber-50 dark:bg-amber-950/20"),
    UnboundedRule("border-yellow-200", "ws", "border-yellow-200 dark:border-yellow-900/30"),
    UnboundedRule("border-amber-200", "ws", "border-amber-200 dark:border-amber-900/30"),
    UnboundedRule("bg-red-50", "ws", "bg-red-50 dark:bg-red-950/20"),
    UnboundedRule("border-red-200", "ws", "border-red-200 dark:border-red-900/30"),
    UnboundedRule("text-red-900", "ws", "text-red-900 dark:text-red-100"),
    UnboundedRule("text-red-800", "ws", "text-red-800 dark:text-red-200"),
    UnboundedRule("bg-green-50", "ws", "bg-green-50 dark:bg-green-950/20"),
    UnboundedRule("border-green-200", "ws", "border-green-200 dark:border-green-900/30"),
    UnboundedRule("bg-emerald-50", "ws", "bg-emerald-50 dark:bg-emerald-950/20"),
    UnboundedRule("border-emerald-100", "ws", "border-emerald-100 dark:border-emerald-900/30"),
    UnboundedRule("border-amber-100", "ws", "border-amber-100 dark:border-amber-900/30"),
    UnboundedRule("border-rose-100", "ws", "border-rose-100 dark:border-rose-900/30"),
    UnboundedRule("border-blue-100", "ws", "border-blue-100 dark:border-blue-900/30") >>

fix_gradients_fix_line(line) ==
    LET new == SubLoop(FIXES, 1, line)
    IN  [line |-> new, changed |-> new # line]

fix_gradients_fix_file(c, fault) ==
    LET lines == ReadLines(c)
        fixed == [i \in 1..Len(lines) |-> fix_gradients_fix_line(lines[i])]
    IN  WriteIfLinesChanged(c, [i \in 1..Len(lines) |-> fixed[i].line],
                            {i \in 1..Len(lines) : fixed[i].changed}, fault)

(***************************************************************************)
(* docs/Utilities/fix_theme_line_by_line.py                                *)
(***************************************************************************)
\* (r'\bLIGHT\b', 'DARK')
Pair(light, dark) ==
    [pat |-> Rule(light, <<"">>, "", TRUE, TRUE, "none", "", ""), dark |-> dark]

\* (r'\bPRE(slate|...|rose)POST\b', 'DARK')
ColorPair(pre, post, dark) ==
    [pat |-> Rule(pre, TailwindColors, post, TRUE, TRUE, "none", "", ""), dark |-> dark]

THEME_PAIRS == <<
    Pair("bg-white", "dark:bg-surface-primary"),
    Pair("bg-gray-50", "dark:bg-surface-secondary"),
    Pair("bg-gray-100", "dark:bg-surface-secondary"),
    Pair("bg-gray-200", "dark:bg-surface-border"),
    Pair("bg-gray-300", "dark:bg-surface-border"),
    Pair("bg-gray-400", "dark:bg-surface-secondary"),
    Pair("bg-gray-500", "dark:bg-surface-secondary"),
    Pair("bg-gray-600", "dark:bg-surface-border"),
    Pair("border-gray-200", "dark:border-surface-border"),
    Pair("border-gray-300", "dark:border-surface-border"),
    Pair("border-gray-400", "dark:border-surface-border"),
    Pair("text-gray-900", "dark:text-text-primary"),
    Pair("text-gray-800", "dark:text-text-primary"),
    Pair("text-gray-700", "dark:text-text-primary"),
    Pair("text-gray-600", "dark:text-text-secondary"),
    Pair("text-gray-500", "dark:text-text-secondary"),
    Pair("text-gray-400", "dark:text-text-tertiary"),
    Pair("text-gray-300", "dark:text-text-tertiary"),
    Pair("divide-gray-100", "dark:divide-surface-border"),
    Pair("divide-gray-200", "dark:divide-surface-border"),
    Pair("hover:bg-gray-50", "dark:hover:bg-surface-secondary"),
    Pair("hover:bg-gray-100", "dark:hover:bg-surface-secondary"),
    Pair("hover:bg-white", "dark:hover:bg-surface-primary"),
    Pair("hover:text-gray-900", "dark:hover:text-text-primary"),
    Pair("hover:text-gray-200", "dark:hover:text-text-tertiary"),
    Pair("focus:bg-gray-50", "dark:focus:bg-surface-secondary"),
    Pair("focus:border-gray-300", "dark:focus:border-surface-border"),
    Pair("ring-gray-200", "dark:ring-surface-border"),
    Pair("ring-gray-300", "dark:ring-surface-border"),
    Pair("placeholder:text-gray-600", "dark:placeholder:text-text-secondary"),
    Pair("placeholder:text-gray-500", "dark:placeholder:text-text-secondary"),
    Pair("placeholder:text-gray-400", "dark:placeholder:text-text-tertiary"),
    Pair("placeholder-gray-500", "dark:placeholder-text-text-secondary"),
    Pair("placeholder-gray-400", "dark:placeholder-text-text-tertiary"),
    ColorPair("bg-", "-50", "dark:bg-surface-primary"),
    ColorPair("bg-", "-100", "dark:bg-surface-secondary") >>

\* one iteration of the loop of fix_line / process_classname: when the light
\* pattern matches and the dark class is not in the text, the dark class is
\* put after the first occurrence of the matched text
\* variant of PairFires: the dark class is looked for only after the light
\* class, as a lookahead would
PairFiresLookahead(pr, line) ==
    LET p == Search(pr.pat, line)
    IN  p # 0 /\ ~Contains(SubSeq(line, p, Len(line)), pr.dark)

PairFires(pr, line) == Search(pr.pat, line) # 0 /\ ~Contains(line, pr.dark)

PairStep(pr, line) ==
    IF PairFires(pr, line)
    THEN LET p == Search(pr.pat, line)
             light_class == SubSeq(line, p, p + MatchLen(pr.pat, MatchAlt(pr.pat, line, p)) - 1)
         IN  ReplaceFirst(line, light_class, light_class \o " " \o pr.dark)
    ELSE line

RECURSIVE PairLoop(_, _, _, _)
PairLoop(pairs, k, line, changed) ==
    IF k > Len(pairs) THEN [line |-> line, changed |-> changed]
    ELSE IF PairFires(pairs[k], line)
         THEN PairLoop(pairs, k + 1, PairStep(pairs[k], line), TRUE)
         ELSE PairLoop(pairs, k + 1, line, changed)

fix_theme_line_by_line_fix_line(line) == PairLoop(THEME_PAIRS, 1, line, FALSE)

fix_theme_line_by_line_fix_file(c, fault) ==
    LET lines == ReadLines(c)
        fixed == [i \in 1..Len(lines) |-> fix_theme_line_by_line_fix_line(lines[i])]
    IN  WriteIfLinesChanged(c, [i \in 1..Len(lines) |-> fixed[i].line],
                            {i \in 1..Len(lines) : fixed[i].changed}, fault)

(***************************************************************************)
(* fix_all_theme_issues_complete.py                                        *)
(***************************************************************************)
THEME_MAPPINGS == <<
    Pair("bg-white", "dark:bg-surface-primary"),
    Pair("bg-gray-50", "dark:bg-surface-secondary"),
    Pair("bg-gray-100", "dark:bg-surface-secondary"),
    Pair("bg-gray-200", "dark:bg-surface-border"),
    ColorPair("bg-", "-50", "dark:bg-surface-primary"),
    ColorPair("bg-", "-100", "dark:bg-surface-secondary"),
    Pair("bg-primary-50", "dark:bg-surface-primary"),
    Pair("bg-primary-100", "dark:bg-surface-secondary"),
    Pair("bg-secondary-50", "dark:bg-surface-primary"),
    Pair("bg-secondary-100", "dark:bg-surface-secondary"),
    Pair("bg-success-50", "dark:bg-surface-primary"),
    Pair("bg-success-100", "dark:bg-surface-secondary"),
    Pair("bg-warning-50", "dark:bg-surface-primary"),
    Pair("bg-warning-100", "dark:bg-surface-secondary"),
    Pair("bg-error-50", "dark:bg-surface-primary"),
    Pair("bg-error-100", "dark:bg-surface-secondary"),
    Pair("text-gray-900", "dark:text-text-primary"),
    Pair("text-gray-800", "dark:text-text-primary"),
    Pair("text-gray-700", "dark:text-text-primary"),
    Pair("text-gray-600", "dark:text-text-secondary"),
    Pair("text-gray-500", "dark:text-text-secondary"),
    Pair("text-gray-400", "dark:text-text-tertiary"),
    Pair("text-gray-300", "dark:text-text-tertiary"),
    Pair("border-gray-200", "dark:border-surface-border"),
    Pair("border-gray-300", "dark:border-surface-border"),
    Pair("divide-gray-100", "dark:divide-surface-border"),
    Pair("divide-gray-200", "dark:divide-surface-border"),
    Pair("hover:bg-gray-50", "dark:hover:bg-surface-secondary"),
    Pair("hover:bg-gray-100", "dark:hover:bg-surface-secondary"),
    Pair("hover:bg-white", "dark:hover:bg-surface-primary") >>

process_classname(classname_content) == PairLoop(THEME_MAPPINGS, 1, classname_content, FALSE)

\* a TLA+ string cannot hold the backquote of a template literal: the
\* model writes it ~, a character no script looks at
BackQuote == "~"

\* classname_pattern, className=(?:"([^"]*)"|{~([^~]*)~}), at position i:
\* the position of the last character of the match, 0 when it does not match
ClassNameEnd(t, i) ==
    IF LitAt(t, i, "className=\"")
    THEN FindFrom(t, "\"", i + 11)
    ELSE IF LitAt(t, i, "className={" \o BackQuote)
         THEN LET b == FindFrom(t, BackQuote, i + 12)
              IN  IF b # 0 /\ Ch(t, b + 1) = "}" THEN b + 1 ELSE 0
         ELSE 0

\* replace_classname(match) for the match t[i..e]
replace_classname(t, i, e) ==
    LET quoted == Ch(t, i + 10) = "\""
        classname_value == IF quoted THEN SubSeq(t, i + 11, e - 1)
                           ELSE SubSeq(t, i + 12, e - 2)
        res == process_classname(classname_value)
    IN  IF classname_value # "" /\ res.changed
        THEN [text |-> IF quoted THEN "className=\"" \o res.line \o "\""
                       ELSE "className={" \o BackQuote \o res.line \o BackQuote \o "}",
              n |-> 1]
        ELSE [text |-> SubSeq(t, i, e), n |-> 0]

\* re.sub(classname_pattern, replace_classname, content)
RECURSIVE ClassNameSub(_, _, _, _)
ClassNameSub(t, i, out, n) ==
    LET hits == {p \in i..Len(t) : ClassNameEnd(t, p) # 0}
    IN  IF hits = {} THEN [text |-> out \o SubSeq(t, i, Len(t)), n |-> n]
        ELSE LET p == Min(hits)
                 e == ClassNameEnd(t, p)
                 rep == replace_classname(t, p, e)
             IN  ClassNameSub(t, e + 1, out \o SubSeq(t, i, p - 1) \o rep.text, n + rep.n)

fix_all_theme_issues_complete_update_file(c, fault) ==
    LET res == ClassNameSub(c, 1, "", 0)
    IN  WriteIfChanged(c, res.text, res.n, 0, fault)

(***************************************************************************)
(* docs/Utilities/fix_all_dark_mode_issues.py                              *)
(***************************************************************************)
tags == <<"input", "select", "textarea">>

\* pattern = rf'(<{tag}\s+[^>]*className="[^"]*?)(")' at position i: the
\* position of the closing quote (group 2), 0 when it does not match.
\* \s+ needs a blank after the tag name; the greedy [^>]* takes the last
\* className=" of the '>'-free run that a quote follows; the lazy [^"]*?
\* stops at the first quote.
LineTagEnd(t, tag, i) ==
    LET j == i + 1 + Len(tag)
        cs == {c \in (j + 1)..Len(t) :
                  /\ LitAt(t, c, "className=\"")
                  /\ \A m \in j..(c - 1) : Ch(t, m) # ">"
                  /\ FindFrom(t, "\"", c + 11) # 0}
    IN  IF LitAt(t, i, "<" \o tag) /\ IsSpace(Ch(t, j)) /\ cs # {}
        THEN FindFrom(t, "\"", Max(cs) + 11)
        ELSE 0

\* add_bg(match) for the match t[i..q]
line_add_bg(t, i, q) ==
    LET classes == SubSeq(t, i, q - 1)
    IN  IF Contains(classes, "bg-") THEN SubSeq(t, i, q)
        ELSE classes \o " bg-white dark:bg-surface-primary" \o "\""

\* re.sub(pattern, add_bg, line)
RECURSIVE LineTagSub(_, _, _, _)
LineTagSub(t, tag, i, out) ==
    LET hits == {p \in i..Len(t) : LineTagEnd(t, tag, p) # 0}
    IN  IF hits = {} THEN out \o SubSeq(t, i, Len(t))
        ELSE LET p == Min(hits)
                 q == LineTagEnd(t, tag, p)
             IN  LineTagSub(t, tag, q + 1, out \o SubSeq(t, i, p - 1) \o line_add_bg(t, p, q))

\* step 1 of fix_line: the tag rule for input, select and textarea
RECURSIVE LineTagLoop(_, _)
LineTagLoop(k, line) ==
    IF k > Len(tags) THEN line
    ELSE LineTagLoop(k + 1, LineTagSub(line, tags[k], 1, ""))

\* variant of MarkedSub: the test 'MARK' not in line is left out
MarkedSubUnmarked(line, light, mark, rep) ==
    IF Contains(line, light) THEN Sub(GuardedRule(light, rep), line) ELSE line

\* steps 2 to 7: if 'LIGHT' in line and 'MARK' not in line: line = re.sub(...)
MarkedSub(line, light, mark, rep) ==
    IF Contains(line, light) /\ ~Contains(line, mark)
    THEN Sub(GuardedRule(light, rep), line)
    ELSE line

color_patterns == <<
    GuardedRule("bg-blue-50", "bg-blue-50 dark:bg-blue-950/20"),
    GuardedRule("bg-green-50", "bg-green-50 dark:bg-green-950/20"),
    GuardedRule("bg-red-50", "bg-red-50 dark:bg-red-950/20"),
    GuardedRule("bg-yellow-50", "bg-yellow-50 dark:bg-yellow-950/20"),
    GuardedRule("bg-purple-50", "bg-purple-50 dark:bg-purple-950/20"),
    GuardedRule("bg-orange-50", "bg-orange-50 dark:bg-orange-950/20") >>

fix_all_dark_mode_issues_fix_line(line) ==
    LET l1 == LineTagLoop(1, line)
        l2 == MarkedSub(l1, "text-white", "dark:text-", "text-white dark:text-white")
        l3 == MarkedSub(l2, "bg-primary-50", "dark:bg-", "bg-primary-50 dark:bg-surface-primary/30")
        l4 == MarkedSub(l3, "border-gray-300", "dark:border-", "border-gray-300 dark:border-surface-border")
        l5 == MarkedSub(l4, "text-gray-600", "dark:text-", "text-gray-600 dark:text-text-secondary")
        l6 == MarkedSub(l5, "text-gray-700", "dark:text-", "text-gray-700 dark:text-text-primary")
        l7 == MarkedSub(l6, "text-gray-800", "dark:text-", "text-gray-800 dark:text-text-primary")
    IN  SubLoop(color_patterns, 1, l7)

fix_all_dark_mode_issues_fix_file(c, fault) ==
    LET lines == SplitLines(c)
        new_lines == [i \in 1..Len(lines) |-> fix_all_dark_mode_issues_fix_line(lines[i])]
    IN  WriteIfChanged(c, JoinLines(new_lines), TRUE, FALSE, fault)

(***************************************************************************)
(* docs/Utilities/fix_multiline_inputs.py                                  *)
(***************************************************************************)
\* the className=" of the attribute list opened at i can complete the match:
\* (?:(?!bg-)[^"])*border[^"]*?" needs, before the first quote, a 'border'
\* with no 'bg-' starting between the className=" and it
FileTagRest(t, c) ==
    LET p == c + 11
        q == FindFrom(t, "\"", p)
    IN  /\ q # 0
        /\ \E b \in p..(q - 6) :
              /\ LitAt(t, b, "border")
              /\ \A k \in p..(b - 1) : ~LitAt(t, k, "bg-")

\* pattern = rf'(<{tag}\b[^>]*?className=")((?:(?!bg-)[^"])*border[^"]*?)(")'
\* at position i: the position of the className=" it matches with (the
\* first one, as [^>]*? is lazy), 0 when it does not match
FileTagClassName(t, tag, i) ==
    LET j == i + 1 + Len(tag)
        cs == {c \in j..Len(t) :
                  /\ LitAt(t, c, "className=\"")
                  /\ \A m \in j..(c - 1) : Ch(t, m) # ">"
                  /\ FileTagRest(t, c)}
    IN  IF LitAt(t, i, "<" \o tag) /\ WordBoundary(t, j) /\ cs # {}
        THEN Min(cs)
        ELSE 0

\* add_bg(match): opening = t[i..c+10], classes = t[c+11..q-1], closing = t[q]
file_add_bg(t, i, c, q) ==
    LET opening == SubSeq(t, i, c + 10)
        classes == SubSeq(t, c + 11, q - 1)
    IN  IF Contains(classes, "bg-") THEN SubSeq(t, i, q)
        ELSE opening \o "bg-white dark:bg-surface-primary " \o classes \o "\""

\* re.sub(pattern, add_bg, content, flags=re.DOTALL)
RECURSIVE FileTagSub(_, _, _, _)
FileTagSub(t, tag, i, out) ==
    LET hits == {p \in i..Len(t) : FileTagClassName(t, tag, p) # 0}
    IN  IF hits = {} THEN out \o SubSeq(t, i, Len(t))
        ELSE LET p == Min(hits)
                 c == FileTagClassName(t, tag, p)
                 q == FindFrom(t, "\"", c + 11)
             IN  FileTagSub(t, tag, q + 1, out \o SubSeq(t, i, p - 1) \o file_add_bg(t, p, c, q))

RECURSIVE fix_file_content_from(_, _)
fix_file_content_from(k, text) ==
    IF k > Len(tags) THEN text
    ELSE fix_file_content_from(k + 1, FileTagSub(text, tags[k], 1, ""))

fix_file_content(c) == fix_file_content_from(1, c)

fix_multiline_inputs_fix_file(c, fault) ==
    WriteIfChanged(c, fix_file_content(c), TRUE, FALSE, fault)

(***************************************************************************)
(* fix_hover_dark_syntax.py                                                *)
(***************************************************************************)
Digits == {"0", "1", "2", "3", "4", "5", "6", "7", "8", "9"}

\* the position after the longest run of characters of S that starts at j
RunEnd(t, j, S) ==
    LET stops == {k \in j..Len(t) : Ch(t, k) \notin S}
    IN  IF stops = {} THEN Max({j, Len(t) + 1}) ELSE Min(stops)

\* (hover:text-gray-\d+)\s+TAIL at position i: the position after group 1
\* (0 when the pattern does not match at i).  \d+ and \s+ are greedy and
\* what follows each is no digit and no blank, so each takes its whole run.
HoverGroupEnd(t, i, tail) ==
    LET d == RunEnd(t, i + 16, Digits)
        s == RunEnd(t, d, SpaceChars)
    IN  IF LitAt(t, i, "hover:text-gray-") /\ d > i + 16 /\ s > d /\ LitAt(t, s, tail)
        THEN d
        ELSE 0

\* re.sub(r'(hover:text-gray-\d+)\s+TAIL', r'\1 dark:hover:TAIL2', line),
\* from position i on: TAIL is 'dark:' and tail2, and the replacement puts
\* ' dark:hover:' and tail2 after group 1
RECURSIVE HoverSub(_, _, _, _)
HoverSub(t, tail2, i, out) ==
    LET hits == {p \in i..Len(t) : HoverGroupEnd(t, p, "dark:" \o tail2) # 0}
    IN  IF hits = {} THEN out \o SubSeq(t, i, Len(t))
        ELSE LET p == Min(hits)
                 d == HoverGroupEnd(t, p, "dark:" \o tail2)
                 e == RunEnd(t, d, SpaceChars) + 5 + Len(tail2)
             IN  HoverSub(t, tail2, e,
                          out \o SubSeq(t, i, d - 1) \o " dark:hover:" \o tail2)

fix_hover_dark_syntax(line) ==
    LET l1 == HoverSub(line, "text-", 1, "")
        l2 == HoverSub(l1, "text-text-primary", 1, "")
        l3 == HoverSub(l2, "text-text-secondary", 1, "")
        l4 == HoverSub(l3, "text-text-tertiary", 1, "")
    IN  [line |-> l4, changed |-> l4 # line]

fix_hover_dark_syntax_fix_file(c, fault) ==
    LET lines == ReadLines(c)
        fixed == [i \in 1..Len(lines) |-> fix_hover_dark_syntax(lines[i])]
    IN  WriteIfLinesChanged(c, [i \in 1..Len(lines) |-> fixed[i].line],
                            {i \in 1..Len(lines) : fixed[i].changed}, fault)


(***************************************************************************)
(* fix_all_missing_backgrounds_final.py                                    *)
(***************************************************************************)
\* re.search(r'className="[^"]*border-[tblr]\b[^"]*"', full_match), for the
\* value classes of the attribute (it holds no quote)
HasDirectionalBorder(classes) ==
    \E k \in 1..Len(classes), d \in {"t", "b", "l", "r"} :
        LitAt(classes, k, "border-" \o d) /\ ~IsWord(Ch(classes, k + 8))

form_field_markers == {"px-", "py-", "pl-", "pr-", "rounded-md", "rounded-lg", "w-full"}

\* variant of fix_single_classname: without the test 'bg-' in classes
fix_single_classname_no_bg_test(classes) ==
    IF ~Contains(classes, "border") THEN classes
    ELSE IF /\ HasDirectionalBorder(classes)
            /\ ~Contains(classes, "border border-")
            /\ \A marker \in form_field_markers : ~Contains(classes, marker)
         THEN classes
         ELSE "bg-white dark:bg-surface-primary " \o classes

\* fix_single_classname(match): the value of the attribute it returns
fix_single_classname(classes) ==
    IF Contains(classes, "bg-") THEN classes
    ELSE IF ~Contains(classes, "border") THEN classes
    ELSE IF /\ HasDirectionalBorder(classes)
            /\ ~Contains(classes, "border border-")
            /\ \A marker \in form_field_markers : ~Contains(classes, marker)
         THEN classes
         ELSE "bg-white dark:bg-surface-primary " \o classes

\* re.sub(r'className="([^"]*)"', fix_single_classname, content), from
\* position i on, out being the text produced so far
RECURSIVE FixClassNamesSub(_, _, _)
FixClassNamesSub(t, i, out) ==
    LET p == FindFrom(t, "className=\"", i)
        e == IF p = 0 THEN 0 ELSE FindFrom(t, "\"", p + 11)
    IN  IF e = 0 THEN out \o SubSeq(t, i, Len(t))
        ELSE LET new == out \o SubSeq(t, i, p + 10)
                            \o fix_single_classname(SubSeq(t, p + 11, e - 1)) \o "\""
             IN  IF new = "" THEN FixClassNamesSub(t, e + 1, "")
                 ELSE FixClassNamesSub(t, e + 1, new)

fix_classnames(c) == FixClassNamesSub(c, 1, "")

\* fix_file of fix_all_missing_backgrounds_final.py
fix_all_missing_backgrounds_final_fix_file(c, fault) ==
    WriteIfChanged(c, fix_classnames(c), TRUE, FALSE, fault)

(***************************************************************************)
(* fix-authorizers.py                                                      *)
(***************************************************************************)
\* the match of
\*   (httpApi\.addRoutes\({[^}]+integration:\s*\w+)([\s,]*)(})
\* that starts at position i of t, as the positions <<g2, k>> at which its
\* groups 2 and 3 start, <<0, 0>> when there is none.  [^}]+ crosses no
\* '}', so group 3 is the first '}' after the opening; no ':' can follow the
\* value, so integration: is the last one before that '}'.
RouteMatch(t, i) ==
    LET a == i + 19
        k == FindFrom(t, "}", a)
        gs == {g \in (a + 1)..(k - 12) : LitAt(t, g, "integration:")}
        g == IF gs = {} THEN 0 ELSE Max(gs)
        w0 == RunEnd(t, g + 12, SpaceChars)
        w1 == RunEnd(t, w0, WordChars)
        s1 == RunEnd(t, w1, SpaceChars \cup {","})
    IN  IF /\ LitAt(t, i, "httpApi.addRoutes({")
           /\ k # 0 /\ g # 0
           /\ w1 > w0
           /\ s1 = k
        THEN <<w1, k>> ELSE <<0, 0>>

public_paths == {"/auth/login", "/auth/signup", "/auth/register", "/auth/refresh", "/auth/logout"}

\* variant of should_have_authorizer: the public /auth/ paths are not left out
should_have_authorizer_no_public(route_text) ==
    ~Contains(route_text, "OPTIONS")

\* should_have_authorizer(route_text), for a text that starts with httpApi
should_have_authorizer(route_text) ==
    /\ ~Contains(route_text, "OPTIONS")
    /\ \A path \in public_paths : ~Contains(route_text, path)

\* variant of add_authorizer: without the test 'authorizer:' in full_match
add_authorizer_unchecked(t, i, g2, k) ==
    IF ~should_have_authorizer(SubSeq(t, i, k)) THEN SubSeq(t, i, k)
    ELSE SubSeq(t, i, g2 - 1) \o "," \o " authorizer: httpAuthorizer"
             \o SubSeq(t, g2, k - 1) \o "}"

\* add_authorizer(match) for the match t[i..k] whose group 2 starts at g2;
\* group 1 ends with a word character, so a comma is always appended
add_authorizer(t, i, g2, k) ==
    IF Contains(SubSeq(t, i, k), "authorizer:") THEN SubSeq(t, i, k)
    ELSE IF ~should_have_authorizer(SubSeq(t, i, k)) THEN SubSeq(t, i, k)
    ELSE SubSeq(t, i, g2 - 1) \o "," \o " authorizer: httpAuthorizer"
             \o SubSeq(t, g2, k - 1) \o "}"

\* re.sub(route_pattern, add_authorizer, content) from position i on
RECURSIVE RouteSub(_, _, _)
RouteSub(t, i, out) ==
    LET hits == {p \in i..Len(t) : RouteMatch(t, p)[2] # 0}
    IN  IF hits = {} THEN out \o SubSeq(t, i, Len(t))
        ELSE LET p == Min(hits)
                 mt == RouteMatch(t, p)
                 new == out \o SubSeq(t, i, p - 1) \o add_authorizer(t, p, mt[1], mt[2])
             IN  IF new = "" THEN RouteSub(t, mt[2] + 1, "")
                 ELSE RouteSub(t, mt[2] + 1, new)

\* len(re.findall(r'authorizer:\s*httpAuthorizer', content))
AuthorizerCount(t) ==
    Cardinality({p \in 1..Len(t) :
        /\ LitAt(t, p, "authorizer:")
        /\ LitAt(t, RunEnd(t, p + 11, SpaceChars), "httpAuthorizer")})

\* the script: the file is read, rewritten and always written back
fix_authorizers(c) ==
    LET new == RouteSub(c, 1, "")
    IN  Outcome(new, AuthorizerCount(new), TRUE, FALSE)

(***************************************************************************)
(* docs/Utilities/fix_ui_components.py                                     *)
(***************************************************************************)
fix_ui_components_substitutions == <<
    GuardedRule("bg-white", "bg-white dark:bg-surface-primary"),
    GuardedRule("bg-gray-50", "bg-gray-50 dark:bg-surface-secondary"),
    GuardedRule("bg-gray-100", "bg-gray-100 dark:bg-surface-secondary"),
    GuardedRule("bg-gray-200", "bg-gray-200 dark:bg-surface-border"),
    GuardedRule("text-gray-900", "text-gray-900 dark:text-text-primary"),
    GuardedRule("text-gray-800", "text-gray-800 dark:text-text-primary"),
    GuardedRule("text-gray-700", "text-gray-700 dark:text-text-primary"),
    GuardedRule("text-gray-600", "text-gray-600 dark:text-text-secondary"),
    GuardedRule("text-gray-500", "text-gray-500 dark:text-text-secondary"),
    GuardedRule("text-gray-400", "text-gray-400 dark:text-text-tertiary"),
    GuardedRule("text-gray-300", "text-gray-300 dark:text-text-tertiary"),
    GuardedRule("border-gray-200", "border-gray-200 dark:border-surface-border"),
    GuardedRule("border-gray-300", "border-gray-300 dark:border-surface-border"),
    GuardedRule("divide-gray-100", "divide-gray-100 dark:divide-surface-border"),
    GuardedRule("divide-gray-200", "divide-gray-200 dark:divide-surface-border"),
    UnboundedRule("border-[#E0E0E0]", "none", "border-gray-200 dark:border-surface-border") >>

fix_ui_components_update_file(c, fault) ==
    WriteIfChanged(c, SubLoop(fix_ui_components_substitutions, 1, c), TRUE, FALSE, fault)

(***************************************************************************)
(* open(filepath, 'r' / 'w', encoding='utf-8'): text mode with the default *)
(* newline=None.                                                           *)
(***************************************************************************)
\* the places of t, from i on, at which p stands
Hits(t, p, i) ==
    {k \in i..(Len(t) + 1 - Len(p)) : SubSeq(t, k, k) = SubSeq(p, 1, 1) /\ LitAt(t, k, p)}

\* the matches str.replace takes among hits, for a text of length m: from
\* the left, each one that starts after the end of the one taken before it
RECURSIVE Leftmost(_, _, _)
Leftmost(hits, m, taken) ==
    IF hits = {} THEN taken
    ELSE LET p == Min(hits)
             rest == {k \in hits : k >= p + m}
         IN  IF rest = {} THEN taken \cup {p} ELSE Leftmost(rest, m, taken \cup {p})

NonOverlapping(hits, m) ==
    IF \A c \in hits : \A d \in (c + 1)..(c + m - 1) : d \notin hits THEN hits
    ELSE Leftmost(hits, m, {})

\* t[lo..hi] with the text of length m at each place of hits replaced by
\* new; no match of hits lies across lo or hi
RECURSIVE ReplaceIn(_, _, _, _, _, _)
ReplaceIn(t, hits, m, new, lo, hi) ==
    LET inside == {c \in hits : lo <= c /\ c <= hi}
        mid == (lo + hi) \div 2
        cut == {c \in inside : c <= mid /\ c + m - 1 > mid}
    IN  IF inside = {} THEN SubSeq(t, lo, hi)
        ELSE IF lo = hi THEN new
        ELSE IF cut # {}
             THEN ReplaceIn(t, inside, m, new, lo, Min(cut) - 1) \o new
                      \o ReplaceIn(t, inside, m, new, Min(cut) + m, hi)
             ELSE ReplaceIn(t, inside, m, new, lo, mid)
                      \o ReplaceIn(t, inside, m, new, mid + 1, hi)

\* t with every occurrence of old replaced by new, from position i on
ReplaceAll(t, old, new, i, out) ==
    out \o ReplaceIn(t, NonOverlapping(Hits(t, old, i), Len(old)), Len(old), new, i, Len(t))

\* f.read() / f.readlines(): '\r\n' and '\r' of the file are given as '\n'
TextRead(bytes) == ReplaceAll(ReplaceAll(bytes, "\r\n", "\n", 1, ""), "\r", "\n", 1, "")

\* f.write() / f.writelines(): each '\n' is written as os.linesep
TextWrite(t, linesep) ==
    IF linesep = "\n" THEN t ELSE ReplaceAll(t, "\n", linesep, 1, "")

\* os.linesep: '\n' on POSIX, '\r\n' on Windows
LineSeps == {"\n", "\r\n"}

\* the outcome of fix_file for the file holding bytes, out being its outcome
\* for the text read from it
TextModeOutcome(bytes, out, linesep) ==
    IF out.wrote THEN [out EXCEPT !.content = TextWrite(out.content, linesep)]
    ELSE [out EXCEPT !.content = bytes]

(***************************************************************************)
(* aws/scripts/update-config-service.py                                    *)
(***************************************************************************)
\* the old handlers (the backquotes of their SQL templates are written ~)
old_handlers ==
    "async function getPackages(event, tenantId) {\n" \o
    "    const pool = getPool();\n" \o
    "    const { rows } = await pool.query(~SELECT * FROM \"Package\" WHERE \"tenantId\" = $1 ORDER BY \"name\"~, [tenantId]);\n" \o
    "    return { statusCode: 200, headers: HEADERS, body: JSON.stringify(rows) };\n" \o
    "}\n" \o
    "\n" \o
    "async function createPackage(event, tenantId) {\n" \o
    "    const pool = getPool();\n" \o
    "    const { name, description, creditCount, priceCents, validityDays } = JSON.parse(event.body);\n" \o
    "    const { rows } = await pool.query(\n" \o
    "        ~INSERT INTO \"Package\" (\"recordId\", \"tenantId\", \"name\", \"description\", \"creditCount\", \"priceCents\", \"validityDays\", \"updatedAt\")\n" \o
    "         VALUES (gen_random_uuid(), $1, $2, $3, $4, $5, $6, NOW()) RETURNING *~,\n" \o
    "        [tenantId, name, description, creditCount || 10, priceCents || 0, validityDays || 365]\n" \o
    "    );\n" \o
    "    return { statusCode: 201, headers: HEADERS, body: JSON.stringify(rows[0]) };\n" \o
    "}"

\* the new handlers (backquotes written ~)
new_handlers ==
    "async function getPackages(event, tenantId) {\n" \o
    "    const pool = getPool();\n" \o
    "    const { rows } = await pool.query(\n" \o
    "        ~SELECT * FROM \"Package\"\n" \o
    "         WHERE \"tenantId\" = $1\n" \o
    "         ORDER BY \"displayOrder\" ASC, \"name\" ASC~,\n" \o
    "        [tenantId]\n" \o
    "    );\n" \o
    "    return { statusCode: 200, headers: HEADERS, body: JSON.stringify(rows) };\n" \o
    "}\n" \o
    "\n" \o
    "async function getPackageById(event, tenantId, packageId) {\n" \o
    "    const pool = getPool();\n" \o
    "\n" \o
    "    const packageResult = await pool.query(\n" \o
    "        ~SELECT * FROM \"Package\" WHERE \"recordId\" = $1 AND \"tenantId\" = $2~,\n" \o
    "        [packageId, tenantId]\n" \o
    "    );\n" \o
    "\n" \o
    "    if (packageResult.rows.length === 0) {\n" \o
    "        return { statusCode: 404, headers: HEADERS, body: JSON.stringify({ message: 'Package not found' }) };\n" \o
    "    }\n" \o
    "\n" \o
    "    const servicesResult = await pool.query(\n" \o
    "        ~SELECT ps.\"recordId\" as \"packageServiceId\", ps.\"quantity\",\n" \o
    "                s.\"recordId\" as \"serviceId\", s.\"name\", s.\"category\",\n" \o
    "                s.\"description\", s.\"priceInCents\", s.\"duration\"\n" \o
    "         FROM \"PackageService\" ps\n" \o
    "         JOIN \"Service\" s ON ps.\"serviceId\" = s.\"recordId\"\n" \o
    "         WHERE ps.\"packageId\" = $1\n" \o
    "         ORDER BY s.\"name\" ASC~,\n" \o
    "        [packageId]\n" \o
    "    );\n" \o
    "\n" \o
    "    return {\n" \o
    "        statusCode: 200,\n" \o
    "        headers: HEADERS,\n" \o
    "        body: JSON.stringify({ ...packageResult.rows[0], services: servicesResult.rows })\n" \o
    "    };\n" \o
    "}\n" \o
    "\n" \o
    "async function createPackage(event, tenantId) {\n" \o
    "    const pool = getPool();\n" \o
    "    const body = JSON.parse(event.body || '{}');\n" \o
    "    const { name, description, price, isActive = true, displayOrder = 0, services = [] } = body;\n" \o
    "\n" \o
    "    if (!name) {\n" \o
    "        return { statusCode: 400, headers: HEADERS, body: JSON.stringify({ message: 'Package name is required' }) };\n" \o
    "    }\n" \o
    "\n" \o
    "    const client = await pool.connect();\n" \o
    "    try {\n" \o
    "        await client.query('BEGIN');\n" \o
    "\n" \o
    "        const packageResult = await client.query(\n" \o
    "            ~INSERT INTO \"Package\" (\"recordId\", \"tenantId\", \"name\", \"description\", \"price\", \"isActive\", \"displayOrder\", \"createdAt\", \"updatedAt\")\n" \o
    "             VALUES (gen_random_uuid(), $1, $2, $3, $4, $5, $6, NOW(), NOW()) RETURNING *~,\n" \o
    "            [tenantId, name, description || null, price || 0, isActive, displayOrder]\n" \o
    "        );\n" \o
    "\n" \o
    "        const newPackage = packageResult.rows[0];\n" \o
    "        const includedServices = [];\n" \o
    "\n" \o
    "        for (const service of services) {\n" \o
    "            if (service.serviceId && service.quantity) {\n" \o
    "                const serviceResult = await client.query(\n" \o
    "                    ~INSERT INTO \"PackageService\" (\"recordId\", \"packageId\", \"serviceId\", \"quantity\", \"createdAt\")\n" \o
    "                     VALUES (gen_random_uuid(), $1, $2, $3, NOW()) RETURNING *~,\n" \o
    "                    [newPackage.recordId, service.serviceId, service.quantity]\n" \o
    "                );\n" \o
    "                includedServices.push(serviceResult.rows[0]);\n" \o
    "            }\n" \o
    "        }\n" \o
    "\n" \o
    "        await client.query('COMMIT');\n" \o
    "        return { statusCode: 201, headers: HEADERS, body: JSON.stringify({ ...newPackage, services: includedServices }) };\n" \o
    "    } catch (error) {\n" \o
    "        await client.query('ROLLBACK');\n" \o
    "        throw error;\n" \o
    "    } finally {\n" \o
    "        client.release();\n" \o
    "    }\n" \o
    "}\n" \o
    "\n" \o
    "async function updatePackage(event, tenantId, packageId) {\n" \o
    "    const pool = getPool();\n" \o
    "    const body = JSON.parse(event.body || '{}');\n" \o
    "    const { name, description, price, isActive, displayOrder, services } = body;\n" \o
    "\n" \o
    "    const existingPackage = await pool.query(\n" \o
    "        ~SELECT * FROM \"Package\" WHERE \"recordId\" = $1 AND \"tenantId\" = $2~,\n" \o
    "        [packageId, tenantId]\n" \o
    "    );\n" \o
    "\n" \o
    "    if (existingPackage.rows.length === 0) {\n" \o
    "        return { statusCode: 404, headers: HEADERS, body: JSON.stringify({ message: 'Package not found' }) };\n" \o
    "    }\n" \o
    "\n" \o
    "    const client = await pool.connect();\n" \o
    "    try {\n" \o
    "        await client.query('BEGIN');\n" \o
    "\n" \o
    "        const updateResult = await client.query(\n" \o
    "            ~UPDATE \"Package\" SET \"name\" = COALESCE($1, \"name\"), \"description\" = COALESCE($2, \"description\"),\n" \o
    "                \"price\" = COALESCE($3, \"price\"), \"isActive\" = COALESCE($4, \"isActive\"),\n" \o
    "                \"displayOrder\" = COALESCE($5, \"displayOrder\"), \"updatedAt\" = NOW()\n" \o
    "             WHERE \"recordId\" = $6 AND \"tenantId\" = $7 RETURNING *~,\n" \o
    "            [name, description, price, isActive, displayOrder, packageId, tenantId]\n" \o
    "        );\n" \o
    "\n" \o
    "        if (services && Array.isArray(services)) {\n" \o
    "            await client.query(~DELETE FROM \"PackageService\" WHERE \"packageId\" = $1~, [packageId]);\n" \o
    "            for (const service of services) {\n" \o
    "                if (service.serviceId && service.quantity) {\n" \o
    "                    await client.query(\n" \o
    "                        ~INSERT INTO \"PackageService\" (\"recordId\", \"packageId\", \"serviceId\", \"quantity\", \"createdAt\")\n" \o
    "                         VALUES (gen_random_uuid(), $1, $2, $3, NOW())~,\n" \o
    "                        [packageId, service.serviceId, service.quantity]\n" \o
    "                    );\n" \o
    "                }\n" \o
    "            }\n" \o
    "        }\n" \o
    "\n" \o
    "        const servicesResult = await client.query(\n" \o
    "            ~SELECT ps.\"recordId\" as \"packageServiceId\", ps.\"quantity\", s.\"recordId\" as \"serviceId\",\n" \o
    "                    s.\"name\", s.\"category\", s.\"description\", s.\"priceInCents\", s.\"duration\"\n" \o
    "             FROM \"PackageService\" ps JOIN \"Service\" s ON ps.\"serviceId\" = s.\"recordId\"\n" \o
    "             WHERE ps.\"packageId\" = $1 ORDER BY s.\"name\" ASC~,\n" \o
    "            [packageId]\n" \o
    "        );\n" \o
    "\n" \o
    "        await client.query('COMMIT');\n" \o
    "        return { statusCode: 200, headers: HEADERS, body: JSON.stringify({ ...updateResult.rows[0], services: servicesResult.rows }) };\n" \o
    "    } catch (error) {\n" \o
    "        await client.query('ROLLBACK');\n" \o
    "        throw error;\n" \o
    "    } finally {\n" \o
    "        client.release();\n" \o
    "    }\n" \o
    "}\n" \o
    "\n" \o
    "async function deletePackage(event, tenantId, packageId) {\n" \o
    "    const pool = getPool();\n" \o
    "    const result = await pool.query(\n" \o
    "        ~UPDATE \"Package\" SET \"isActive\" = false, \"updatedAt\" = NOW()\n" \o
    "         WHERE \"recordId\" = $1 AND \"tenantId\" = $2 RETURNING *~,\n" \o
    "        [packageId, tenantId]\n" \o
    "    );\n" \o
    "\n" \o
    "    if (result.rows.length === 0) {\n" \o
    "        return { statusCode: 404, headers: HEADERS, body: JSON.stringify({ message: 'Package not found' }) };\n" \o
    "    }\n" \o
    "\n" \o
    "    return { statusCode: 200, headers: HEADERS, body: JSON.stringify({ message: 'Package deleted successfully', package: result.rows[0] }) };\n" \o
    "}"

\* variant of replace_handlers: content.replace(old_handlers, new_handlers, 1)
replace_handlers_first(c) ==
    LET p == Find(c, old_handlers)
    IN  IF p = 0 THEN c
        ELSE SubSeq(c, 1, p - 1) \o new_handlers
                 \o SubSeq(c, p + Len(old_handlers), Len(c))

\* content.replace(old_handlers, new_handlers)
replace_handlers(c) == ReplaceAll(c, old_handlers, new_handlers, 1, "")

\* the whole script, no open, read or write failing: the text read, the
\* lines printed (without the mark each begins with), the text given to
\* f.write and the file after it
update_config_service(bytes, linesep) ==
    LET read == TextRead(bytes)
        found == Contains(read, old_handlers)
        written == IF found THEN replace_handlers(read) ELSE read
    IN  [read |-> read,
         printed |-> << IF found THEN "Replaced package handlers successfully"
                        ELSE "Could not find old handlers to replace",
                        "File updated successfully" >>,
         written |-> written,
         file |-> TextWrite(written, linesep)]
(***************************************************************************)
(* Input texts.  A text is a concatenation of at most MaxFrags fragments   *)
(* of the class strings the rule tables look at.                           *)
(***************************************************************************)
RECURSIVE Concats(_, _)
Concats(F, k) ==
    IF k = 0 THEN {""}
    ELSE LET shorter == Concats(F, k - 1)
         IN  shorter \cup {s \o f : s \in shorter, f \in F}

\* fragments of the files given to the whole-file rule tables
TableFrags == {"bg-white", " ", "bg-white dark:bg-surface-primary ", "border-gray-300",
               "-gray-200", "hover:bg-gray-50", "bg-[#FFFFFF]", "\n dark:"}

TableTexts == Concats(TableFrags, MaxFrags) \ {""}

\* one bg-<color>-50 class per color of the alternation, in several contexts
ColorTexts ==
    {pre \o "bg-" \o TailwindColors[k] \o "-50" \o post :
        pre \in {"class=\"", "hover:", "x"},
        post \in {"\"", " dark:bg-x", "0"},
        k \in 1..Len(TailwindColors)}

TableScripts == {"fix_all_dark_mode", "fix_theme_system_complete", "fix_colored_backgrounds",
                 "fix_all_features", "update_dark_mode", "update_all_features"}

ColorScripts == {"fix_theme_system_complete", "fix_colored_backgrounds"}

\* fragments of the lines and className values given to the line functions
LineFrags == {"bg-white", " ", "dark:bg-surface-primary ", " dark:bg-surface-primary",
              "class=\"bg-white\"", "divide-gray-100", "-gray-200",
              "bg-gradient-to-r from-purple-50 to-pink-50", "\n"}

\* a line as f.readlines() yields it: a line terminator only at its end
IsLine(t) == FindFrom(t, "\n", 1) \in {0, Len(t)}

LineTexts == {t \in Concats(LineFrags, MaxFrags) \ {""} : IsLine(t)}

\* a className value as classname_pattern captures it: no quote in it
ClassNameTexts == {t \in LineTexts : ~Contains(t, "\"") /\ ~Contains(t, "\n")}

LineScripts == {"fix_gradients_fix_line", "fix_theme_line_by_line_fix_line"}

\* a tag whose attributes are on one line or continue on the next one
ScopeTexts ==
    {open \o sep \o "className=\"" \o classes \o "\"" \o close :
        open \in {"<input", "<input type=\"text\"", "<input onChange={e => f(e)}",
                  "<select", "<div"},
        sep \in {"\n  ", " "},
        classes \in {"border", "w-full border-gray-300", "border bg-white", "rounded"},
        close \in {" />", ">"}}

ScopeScripts == {"fix_all_dark_mode_issues", "fix_multiline_inputs"}

\* the files of the directory the walking scripts scan, in the order rglob
\* yields them, and the texts they may hold
Paths == <<"features/a.jsx", "features/__tests__/c.jsx", "features/b.jsx",
           "features/d.test.jsx">>

PathSet == {Paths[i] : i \in 1..Len(Paths)}

\* '__tests__' in str(jsx_file) or '.test.' in str(jsx_file)
IsTestPath(p) == Contains(p, "__tests__") \/ Contains(p, ".test.")

WalkTexts == {"const x = 1\n",
              "<div className=\"bg-white\">\n",
              "<div className=\"bg-white dark:bg-surface-primary\">\n",
              "<p className=\"bg-white\">\n<p className=\"text-gray-900 bg-white\">\n"}

Faults == {"ok", "read", "write"}

WalkScripts == {"fix_all_dark_mode", "fix_theme_line_by_line", "fix_all_theme_issues_complete"}

(***************************************************************************)
(* One file, one script (or one function of it) run on it repeatedly.      *)
(***************************************************************************)
NoWalk ==
    /\ files0 = <<>>
    /\ files = <<>>
    /\ faults = <<>>
    /\ todo = <<>>
    /\ results = <<>>
    /\ opened = {}
    /\ errors = {}
    /\ total_files = 0
    /\ total_changes = 0
    /\ updated_files = <<>>
    /\ called = {}
    /\ aborted = FALSE

OneFile(pairs) ==
    /\ \E pr \in pairs : script = pr[1] /\ orig = pr[2]
    /\ content = orig
    /\ prev = orig
    /\ ret = 0
    /\ wrote = FALSE
    /\ runs = 0
    /\ NoWalk

Init == OneFile((TableScripts \X TableTexts) \cup (ColorScripts \X ColorTexts))

InitLine ==
    OneFile((({"fix_all_dark_mode"} \cup LineScripts) \X LineTexts)
            \cup ({"process_classname"} \X ClassNameTexts))

InitScope == OneFile(ScopeScripts \X ScopeTexts)

Run(name, out) ==
    /\ script = name
    /\ runs < MaxRuns
    /\ prev' = content
    /\ content' = out.content
    /\ ret' = out.ret
    /\ wrote' = out.wrote
    /\ runs' = runs + 1
    /\ UNCHANGED <<orig, script>>
    /\ UNCHANGED walkvars

\* a function from a line (a className value) to a pair (text, changed)
LineOutcome(res) == Outcome(res.line, res.changed, FALSE, FALSE)

Run_fix_all_dark_mode == Run("fix_all_dark_mode", fix_all_dark_mode_update_file(content, "ok"))

Run_fix_theme_system_complete ==
    Run("fix_theme_system_complete", fix_theme_system_complete_update_file(content, "ok"))

Run_fix_colored_backgrounds ==
    Run("fix_colored_backgrounds", fix_colored_backgrounds_update_file(content, "ok"))

Run_fix_all_features == Run("fix_all_features", fix_all_features_update_file(content, "ok"))

Run_update_dark_mode == Run("update_dark_mode", update_dark_mode_update_file(content, "ok"))

Run_update_all_features ==
    Run("update_all_features", update_all_features_update_file(content, "ok"))

Run_fix_gradients_fix_line ==
    Run("fix_gradients_fix_line", LineOutcome(fix_gradients_fix_line(content)))

Run_fix_theme_line_by_line_fix_line ==
    Run("fix_theme_line_by_line_fix_line", LineOutcome(fix_theme_line_by_line_fix_line(content)))

Run_process_classname == Run("process_classname", LineOutcome(process_classname(content)))

Run_fix_all_dark_mode_issues ==
    Run("fix_all_dark_mode_issues", fix_all_dark_mode_issues_fix_file(content, "ok"))

Run_fix_multiline_inputs ==
    Run("fix_multiline_inputs", fix_multiline_inputs_fix_file(content, "ok"))

Next ==
    \/ Run_fix_all_dark_mode
    \/ Run_fix_theme_system_complete
    \/ Run_fix_colored_backgrounds
    \/ Run_fix_all_features
    \/ Run_update_dark_mode
    \/ Run_update_all_features

Spec == Init /\ [][Next]_vars

NextLine ==
    \/ Run_fix_all_dark_mode
    \/ Run_fix_gradients_fix_line
    \/ Run_fix_theme_line_by_line_fix_line
    \/ Run_process_classname

SpecLine == InitLine /\ [][NextLine]_vars

NextScope ==
    \/ Run_fix_all_dark_mode_issues
    \/ Run_fix_multiline_inputs

SpecScope == InitScope /\ [][NextScope]_vars

(***************************************************************************)
(* main(): the walk over the .jsx files of the directory.                  *)
(***************************************************************************)
\* the state before the loop of main(), for one of the scripts and files
\* holding some of the texts
WalkInit(scripts, texts) ==
    /\ script \in scripts
    /\ orig = ""
    /\ content = ""
    /\ prev = ""
    /\ ret = 0
    /\ wrote = FALSE
    /\ runs = 0
    /\ files0 \in [PathSet -> texts]
    /\ \A p \in PathSet : IsTestPath(p) => files0[p] = "<div className=\"bg-white\">\n"
    /\ files = files0
    /\ faults \in [PathSet -> Faults]
    /\ \A p \in PathSet : IsTestPath(p) => faults[p] = "ok"
    /\ todo = Paths
    /\ results = [p \in PathSet |-> 0]
    /\ opened = {}
    /\ errors = {}
    /\ total_files = 0
    /\ total_changes = 0
    /\ updated_files = <<>>
    /\ called = {}
    /\ aborted = FALSE

InitWalk == WalkInit(WalkScripts, WalkTexts)

\* the file the loop of main() is at, and what update_file / fix_file is given
jsx_file == Head(todo)

\* one iteration of the for loop of main(): the file is skipped when skip
\* holds, else out is the outcome of the script's update_file / fix_file on
\* it; an exception that leaves update_file / fix_file leaves the loop
WalkStep(name, skip, out) ==
    /\ script = name
    /\ todo # <<>>
    /\ ~aborted
    /\ IF skip
       THEN /\ todo' = Tail(todo)
            /\ UNCHANGED <<files, results, opened, errors, total_files,
                           total_changes, updated_files, called, aborted>>
       ELSE /\ called' = called \cup {jsx_file}
            /\ IF out.raised
               THEN /\ aborted' = TRUE
                    /\ UNCHANGED <<todo, files, results, opened, errors, total_files,
                                   total_changes, updated_files>>
               ELSE /\ aborted' = FALSE
                    /\ todo' = Tail(todo)
                    /\ files' = [files EXCEPT ![jsx_file] = out.content]
                    /\ results' = [results EXCEPT ![jsx_file] = out.ret]
                    /\ opened' = IF out.wrote THEN opened \cup {jsx_file} ELSE opened
                    /\ errors' = IF out.err THEN errors \cup {jsx_file} ELSE errors
                    /\ IF out.ret > 0
                       THEN /\ total_files' = total_files + 1
                            /\ total_changes' = total_changes + out.ret
                            /\ updated_files' = Append(updated_files, <<jsx_file, out.ret>>)
                       ELSE UNCHANGED <<total_files, total_changes, updated_files>>
    /\ UNCHANGED <<files0, faults, script>>
    /\ UNCHANGED filevars

\* if '__tests__' in str(jsx_file) or '.test.' in str(jsx_file): continue
Walk(name, out) == WalkStep(name, IsTestPath(jsx_file), out)

Walk_fix_all_dark_mode ==
    Walk("fix_all_dark_mode",
         fix_all_dark_mode_update_file(files[jsx_file], faults[jsx_file]))

Walk_fix_theme_line_by_line ==
    Walk("fix_theme_line_by_line",
         fix_theme_line_by_line_fix_file(files[jsx_file], faults[jsx_file]))

Walk_fix_all_theme_issues_complete ==
    Walk("fix_all_theme_issues_complete",
         fix_all_theme_issues_complete_update_file(files[jsx_file], faults[jsx_file]))

Walk_fix_gradients ==
    Walk("fix_gradients", fix_gradients_fix_file(files[jsx_file], faults[jsx_file]))

Walk_fix_hover_dark_syntax ==
    Walk("fix_hover_dark_syntax",
         fix_hover_dark_syntax_fix_file(files[jsx_file], faults[jsx_file]))

\* should_process(file_path) of update_all_features
should_process(file_path) ==
    ~Contains(file_path, "__tests__") /\ ~Contains(file_path, "node_modules")

Walk_update_all_features ==
    WalkStep("update_all_features", ~should_process(jsx_file),
             update_all_features_update_file(files[jsx_file], faults[jsx_file]))

NextWalk ==
    \/ Walk_fix_all_dark_mode
    \/ Walk_fix_theme_line_by_line
    \/ Walk_fix_all_theme_issues_complete

SpecWalk == InitWalk /\ [][NextWalk]_vars

\* the walks of the scripts that C10 does not name, on files that also hold
\* a line on which the gradient and the hover rules fire
IsolationScripts == {"fix_all_dark_mode", "fix_gradients", "fix_hover_dark_syntax",
                     "update_all_features"}

IsolationTexts ==
    WalkTexts \cup {"<a className=\"hover:text-gray-600 dark:text-text-secondary border-purple-200\">\n"}

InitIsolation == WalkInit(IsolationScripts, IsolationTexts)

NextIsolation ==
    \/ Walk_fix_all_dark_mode
    \/ Walk_fix_gradients
    \/ Walk_fix_hover_dark_syntax
    \/ Walk_update_all_features

SpecIsolation == InitIsolation /\ [][NextIsolation]_vars


(***************************************************************************)
(* fix-tenant-lookup.py                                                    *)
(***************************************************************************)
services == <<"analytics-service", "operations-service", "config-service",
              "financial-service">>

ServiceSet == {services[i] : i \in 1..Len(services)}

\* the replacement text (the backquotes of its SQL template are written ~)
fixed_function ==
    "async function getUserInfoFromEvent(event) {\n" \o
    "    // First, try to get claims from API Gateway JWT authorizer\n" \o
    "    const claims = event?.requestContext?.authorizer?.jwt?.claims;\n" \o
    "\n" \o
    "    if (claims) {\n" \o
    "        console.log('[AUTH] Using API Gateway JWT claims');\n" \o
    "\n" \o
    "        // Cognito tokens don't have tenantId - fetch from database\n" \o
    "        let tenantId = claims['custom:tenantId'] || claims.tenantId;\n" \o
    "\n" \o
    "        if (!tenantId && claims.sub) {\n" \o
    "            console.log('[AUTH] Fetching tenantId from database for Cognito user:', claims.sub);\n" \o
    "            const pool = getPool();\n" \o
    "\n" \o
    "            try {\n" \o
    "                // Query for user's tenant based on Cognito sub or email\n" \o
    "                const result = await pool.query(\n" \o
    "                    ~SELECT m.\"tenantId\"\n" \o
    "                     FROM public.\"Membership\" m\n" \o
    "                     JOIN public.\"User\" u ON m.\"userId\" = u.\"recordId\"\n" \o
    "                     WHERE (u.\"cognitoSub\" = $1 OR u.\"email\" = $2)\n" \o
    "                     AND m.\"deletedAt\" IS NULL\n" \o
    "                     ORDER BY m.\"updatedAt\" DESC\n" \o
    "                     LIMIT 1~,\n" \o
    "                    [claims.sub, claims.email || claims['cognito:username']]\n" \o
    "                );\n" \o
    "\n" \o
    "                if (result.rows.length > 0) {\n" \o
    "                    tenantId = result.rows[0].tenantId;\n" \o
    "                    console.log('[AUTH] Found tenantId from database:', tenantId);\n" \o
    "                } else {\n" \o
    "                    console.error('[AUTH] No tenant found for user:', claims.sub);\n" \o
    "                }\n" \o
    "            } catch (error) {\n" \o
    "                console.error('[AUTH] Error fetching tenantId from database:', error.message);\n" \o
    "            }\n" \o
    "        }\n" \o
    "\n" \o
    "        return {\n" \o
    "            sub: claims.sub,\n" \o
    "            username: claims.username || claims['cognito:username'],\n" \o
    "            email: claims.email,\n" \o
    "            tenantId: tenantId,\n" \o
    "            userId: claims.sub,\n" \o
    "            role: claims['custom:role'] || 'USER'\n" \o
    "        };\n" \o
    "    }"

\* the match of
\*   async function getUserInfoFromEvent\(event\) \{[^}]*?if \(claims\) \{
\*   [^}]*?return \{[^}]*?\};\s*\}
\* that starts at position i of t: the position of its last character, 0
\* when there is none.  No [^}]*? crosses a '}', so the '}' of '};' is the
\* first '}' after the header, and 'if (claims) {' and then 'return {' lie
\* before it.
TenantMatchEnd(t, i) ==
    LET a == i + 43
        k == FindFrom(t, "}", a)
        b == FindFrom(t, "if (claims) {", a)
        r == IF b = 0 THEN 0 ELSE FindFrom(t, "return {", b + 13)
        s == RunEnd(t, k + 2, SpaceChars)
    IN  IF /\ LitAt(t, i, "async function getUserInfoFromEvent(event) {")
           /\ k # 0 /\ b # 0 /\ r # 0 /\ r < k
           /\ LitAt(t, k, "};")
           /\ Ch(t, s) = "}"
        THEN s ELSE 0

\* re.search(pattern, content, re.DOTALL): start of the leftmost match, or 0
TenantSearch(t) ==
    LET hits == {i \in 1..Len(t) : TenantMatchEnd(t, i) # 0}
    IN  IF hits = {} THEN 0 ELSE Min(hits)

\* re.sub(pattern, fixed_function, content, flags=re.DOTALL, count=1)
TenantSub(t) ==
    LET i == TenantSearch(t)
    IN  IF i = 0 THEN t
        ELSE SubSeq(t, 1, i - 1) \o fixed_function
                 \o SubSeq(t, TenantMatchEnd(t, i) + 1, Len(t))

\* the body of the loop for a file that exists: nothing catches a failing
\* open / read / write
fix_tenant_lookup_service(c, fault) ==
    IF fault = "read" THEN Raised(c)
    ELSE IF TenantSearch(c) # 0
         THEN IF fault = "write" THEN Raised(c)
              ELSE Outcome(TenantSub(c), 1, TRUE, FALSE)
         ELSE Outcome(c, 0, FALSE, FALSE)

\* the index.js files of the services: one that holds the function, one in
\* which a '}' comes before if (claims), one without the function
TenantTexts ==
    {"async function getUserInfoFromEvent(event) {\n  if (claims) {\n    return { t: claims.t };\n  }\n  return null;\n}\n",
     "async function getUserInfoFromEvent(event) {\n  const o = {};\n  if (claims) {\n    return { t: o };\n  }\n}\n",
     "exports.handler = async (event) => {};\n"}

TenantFaults == {"ok", "read", "write", "missing"}

InitTenant ==
    /\ script = "fix_tenant_lookup"
    /\ orig = ""
    /\ content = ""
    /\ prev = ""
    /\ ret = 0
    /\ wrote = FALSE
    /\ runs = 0
    /\ faults \in [ServiceSet -> TenantFaults]
    /\ files0 \in [ServiceSet -> TenantTexts \cup {""}]
    /\ \A s \in ServiceSet : (files0[s] = "") = (faults[s] = "missing")
    /\ files = files0
    /\ todo = services
    /\ results = [s \in ServiceSet |-> 0]
    /\ opened = {}
    /\ errors = {}
    /\ total_files = 0
    /\ total_changes = 0
    /\ updated_files = <<>>
    /\ called = {}
    /\ aborted = FALSE

service == Head(todo)

\* one iteration of  for service in services:  the file is read when
\* os.path.exists(file_path), else '[ERROR] File not found' is printed
Tenant_service ==
    /\ script = "fix_tenant_lookup"
    /\ todo # <<>>
    /\ ~aborted
    /\ IF faults[service] = "missing"
       THEN /\ todo' = Tail(todo)
            /\ errors' = errors \cup {service}
            /\ UNCHANGED <<files, results, opened, called, aborted>>
       ELSE LET out == fix_tenant_lookup_service(files[service], faults[service])
            IN  /\ called' = called \cup {service}
                /\ IF out.raised
                   THEN /\ aborted' = TRUE
                        /\ UNCHANGED <<todo, files, results, opened, errors>>
                   ELSE /\ aborted' = FALSE
                        /\ todo' = Tail(todo)
                        /\ files' = [files EXCEPT ![service] = out.content]
                        /\ results' = [results EXCEPT ![service] = out.ret]
                        /\ opened' = IF out.wrote THEN opened \cup {service} ELSE opened
                        /\ UNCHANGED errors
    /\ UNCHANGED <<files0, faults, script, total_files, total_changes, updated_files>>
    /\ UNCHANGED filevars

NextTenant == Tenant_service

SpecTenant == InitTenant /\ [][NextTenant]_vars

(***************************************************************************)
(* Texts with a className=" attribute whose closing quote is missing, and  *)
(* the scripts that look for className="..." in them.                      *)
(***************************************************************************)
MalformedTexts ==
    {open \o sep \o "className=\"" \o classes \o rest :
        open \in {"<input", "<select", "<div"},
        sep \in {"\n  ", " "},
        classes \in {"border", "w-full border rounded-md", "rounded", "border-t"},
        rest \in {">", " id=\"x\">", ">\n<p id=\"x\">"}}

MalformedScripts ==
    {"fix_all_missing_backgrounds_final", "fix_all_dark_mode_issues", "fix_multiline_inputs"}

InitMalformed == OneFile(MalformedScripts \X MalformedTexts)

Run_fix_all_missing_backgrounds_final ==
    Run("fix_all_missing_backgrounds_final",
        fix_all_missing_backgrounds_final_fix_file(content, "ok"))

NextMalformed ==
    \/ Run_fix_all_missing_backgrounds_final
    \/ Run_fix_all_dark_mode_issues
    \/ Run_fix_multiline_inputs

SpecMalformed == InitMalformed /\ [][NextMalformed]_vars

(***************************************************************************)
(* fix-authorizers.py on a stack file made of httpApi.addRoutes calls.     *)
(***************************************************************************)
\* one call per route: its path, its method, and the end of its properties
RouteCalls ==
    {"httpApi.addRoutes({\n  path: '" \o path \o "',\n  methods: [HttpMethod." \o method
        \o "],\n  integration: petsIntegration" \o last \o "});\n" :
        path \in {"/api/v1/pets", "/api/v1/pets/{id}", "/api/v1/auth/login"},
        method \in {"GET", "OPTIONS"},
        last \in {",\n", ",\n  authorizer: httpAuthorizer,\n"}}

RouteTexts == Concats(RouteCalls, MaxFrags) \ {""}

InitRoutes == OneFile({"fix_authorizers"} \X RouteTexts)

Run_fix_authorizers == Run("fix_authorizers", fix_authorizers(content))

NextRoutes == Run_fix_authorizers

SpecRoutes == InitRoutes /\ [][NextRoutes]_vars

(***************************************************************************)
(* fix_hover_dark_syntax on one line.                                      *)
(***************************************************************************)
HoverFrags == {"hover:text-gray-600 ", "hover:text-gray-600\t ", "hover:text-gray-",
               "dark:text-gray-400 ", "dark:text-text-primary", "dark:text-text-secondary ",
               "dark:hover:text-text-primary ", "text-sm "}

HoverTexts == Concats(HoverFrags, MaxFrags + 1) \ {""}

InitHover == OneFile({"fix_hover_dark_syntax"} \X HoverTexts)

Run_fix_hover_dark_syntax ==
    Run("fix_hover_dark_syntax", LineOutcome(fix_hover_dark_syntax(content)))

NextHover == Run_fix_hover_dark_syntax

SpecHover == InitHover /\ [][NextHover]_vars

(***************************************************************************)
(* fix_all_missing_backgrounds_final.fix_classnames on a text with two     *)
(* className attributes and another attribute.                             *)
(***************************************************************************)
ClassFrags == {"border ", "border-t ", "border-b-2 ", "border-gray-200 ",
               "border border-gray-200 ", "bg-white ", "px-2 ", "text-sm ",
               "border-teal-500 "}

ClassValues == Concats(ClassFrags, MaxFrags)

ClassTexts ==
    {"<div id=\"border\" className=\"" \o c1 \o "\">\n  <hr className=\"" \o c2 \o "\" />\n" :
        c1 \in ClassValues, c2 \in {"border-l", "rounded-lg border", "w-full"}}

InitClassNames == OneFile({"fix_classnames"} \X ClassTexts)

Run_fix_classnames ==
    Run("fix_classnames",
        Outcome(fix_classnames(content), fix_classnames(content) # content, FALSE, FALSE))

NextClassNames == Run_fix_classnames

SpecClassNames == InitClassNames /\ [][NextClassNames]_vars

(***************************************************************************)
(* fix_line and process_classname on lines whose classes hold one another. *)
(***************************************************************************)
InsertFrags == {"bg-gray-500 ", "bg-gray-50", " ", "bg-white", "xbg-white ",
                "text-gray-900", "dark:bg-surface-secondary ", "bg-gray-100"}

InsertTexts == Concats(InsertFrags, MaxFrags) \ {""}

InsertScripts == {"fix_theme_line_by_line_fix_line", "process_classname"}

InitInsert == OneFile(InsertScripts \X InsertTexts)

NextInsert ==
    \/ Run_fix_theme_line_by_line_fix_line
    \/ Run_process_classname

SpecInsert == InitInsert /\ [][NextInsert]_vars

(***************************************************************************)
(* The lookahead-guarded tables on class lists in which the dark class of  *)
(* bg-white stands apart from it.                                          *)
(***************************************************************************)
CompanionFrags == {"bg-white", "bg-white ", "bg-white text-sm ", " ", "text-sm ",
                   "dark:bg-surface-primary", "dark:bg-surface-primary ",
                   "border-[#E0E0E0] "}

CompanionTexts == Concats(CompanionFrags, MaxFrags) \ {""}

CompanionScripts == {"fix_all_dark_mode", "fix_all_features", "fix_ui_components",
                     "fix_theme_system_complete"}

InitCompanion == OneFile(CompanionScripts \X CompanionTexts)

Run_fix_ui_components == Run("fix_ui_components", fix_ui_components_update_file(content, "ok"))

NextCompanion ==
    \/ Run_fix_all_dark_mode
    \/ Run_fix_all_features
    \/ Run_fix_ui_components
    \/ Run_fix_theme_system_complete

SpecCompanion == InitCompanion /\ [][NextCompanion]_vars

(***************************************************************************)
(* fix-authorizers.py on a stack file with routes that already have an     *)
(* authorizer, a commented-out route and a statement that is no route.     *)
(***************************************************************************)
StackParts ==
    {"httpApi.addRoutes({\n  " \o first \o "path: '" \o path \o "',\n  methods: [HttpMethod."
        \o method \o "],\n  integration: petsIntegration,\n});\n" :
        first \in {"", "authorizer: httpAuthorizer,\n  "},
        path \in {"/api/v1/pets", "/api/v1/auth/login"},
        method \in {"GET", "OPTIONS"}}
    \cup {"// httpApi.addRoutes({ path: '/api/v1/old', methods: [HttpMethod.GET], integration: oldIntegration });\n",
          "const stage = { name: 'dev' };\n"}

StackTexts == Concats(StackParts, MaxFrags) \ {""}

InitStack == OneFile({"fix_authorizers"} \X StackTexts)

SpecStack == InitStack /\ [][NextRoutes]_vars

(***************************************************************************)
(* fix_file of the line-scoped scripts on files with LF and CRLF lines.    *)
(***************************************************************************)
TerminatorLines ==
    {body \o eol :
        body \in {"x", "bg-white", "hover:text-gray-600 dark:text-text-secondary",
                  "text-white", "bg-gradient-to-r from-purple-50 to-pink-50"},
        eol \in {"\n", "\r\n"}}

TerminatorTexts == Concats(TerminatorLines, MaxFrags) \ {""}

LineScopedScripts == {"fix_theme_line_by_line", "fix_gradients", "fix_hover_dark_syntax",
                      "fix_all_dark_mode_issues"}

InitTerminators == OneFile(LineScopedScripts \X TerminatorTexts)

Run_fix_theme_line_by_line_fix_file ==
    \E linesep \in LineSeps :
        Run("fix_theme_line_by_line",
            TextModeOutcome(content,
                fix_theme_line_by_line_fix_file(TextRead(content), "ok"), linesep))

Run_fix_gradients_fix_file ==
    \E linesep \in LineSeps :
        Run("fix_gradients",
            TextModeOutcome(content, fix_gradients_fix_file(TextRead(content), "ok"), linesep))

Run_fix_hover_dark_syntax_fix_file ==
    \E linesep \in LineSeps :
        Run("fix_hover_dark_syntax",
            TextModeOutcome(content,
                fix_hover_dark_syntax_fix_file(TextRead(content), "ok"), linesep))

Run_fix_all_dark_mode_issues_fix_file ==
    \E linesep \in LineSeps :
        Run("fix_all_dark_mode_issues",
            TextModeOutcome(content,
                fix_all_dark_mode_issues_fix_file(TextRead(content), "ok"), linesep))

NextTerminators ==
    \/ Run_fix_theme_line_by_line_fix_file
    \/ Run_fix_gradients_fix_file
    \/ Run_fix_hover_dark_syntax_fix_file
    \/ Run_fix_all_dark_mode_issues_fix_file

SpecTerminators == InitTerminators /\ [][NextTerminators]_vars

(***************************************************************************)
(* fix_line of fix_all_dark_mode_issues on lines holding several of the    *)
(* text classes.                                                           *)
(***************************************************************************)
GuardFrags == {"text-white", "text-gray-600", "text-gray-700", "text-gray-800", " ",
               " dark:text-text-primary", "border-gray-300"}

GuardTexts == Concats(GuardFrags, MaxFrags + 1) \ {""}

InitGuard == OneFile({"fix_all_dark_mode_issues_fix_line"} \X GuardTexts)

Run_fix_all_dark_mode_issues_fix_line ==
    Run("fix_all_dark_mode_issues_fix_line",
        LET line == fix_all_dark_mode_issues_fix_line(content)
        IN  Outcome(line, line, FALSE, FALSE))

NextGuard == Run_fix_all_dark_mode_issues_fix_line

SpecGuard == InitGuard /\ [][NextGuard]_vars

(***************************************************************************)
(* The lookahead-guarded scripts run one after the other over one file.    *)
(***************************************************************************)
SequenceFrags == {"bg-gray-50", "bg-white", " ", "border-gray-300", "-gray-200",
                  "hover:bg-gray-50", "bg-gray-50 dark:bg-surface-primary "}

SequenceTexts == Concats(SequenceFrags, MaxFrags) \ {""}

SequenceScripts == {"fix_all_dark_mode", "fix_all_features", "fix_theme_system_complete",
                    "fix_colored_backgrounds"}

\* script is the first script of the sequence
InitSequence == OneFile(SequenceScripts \X SequenceTexts)

\* one run of the script name: the first of the sequence is script, every
\* later one is any of the scripts
Then(name, out) ==
    /\ runs < MaxRuns
    /\ runs = 0 => script = name
    /\ prev' = content
    /\ content' = out.content
    /\ ret' = out.ret
    /\ wrote' = out.wrote
    /\ runs' = runs + 1
    /\ UNCHANGED <<orig, script>>
    /\ UNCHANGED walkvars

Then_fix_all_dark_mode == Then("fix_all_dark_mode", fix_all_dark_mode_update_file(content, "ok"))

Then_fix_all_features == Then("fix_all_features", fix_all_features_update_file(content, "ok"))

Then_fix_theme_system_complete ==
    Then("fix_theme_system_complete", fix_theme_system_complete_update_file(content, "ok"))

Then_fix_colored_backgrounds ==
    Then("fix_colored_backgrounds", fix_colored_backgrounds_update_file(content, "ok"))

NextSequence ==
    \/ Then_fix_all_dark_mode
    \/ Then_fix_all_features
    \/ Then_fix_theme_system_complete
    \/ Then_fix_colored_backgrounds

SpecSequence == InitSequence /\ [][NextSequence]_vars

(***************************************************************************)
(* fix-tenant-lookup.py run twice over the services, no open, read or      *)
(* write failing.                                                          *)
(***************************************************************************)
\* index.js files: the function once, the function twice, the function with
\* a '}' before if (claims), no function
RerunTexts ==
    {"async function getUserInfoFromEvent(event) {\n  if (claims) {\n    return { t: claims.t };\n  }\n  return null;\n}\n",
     "async function getUserInfoFromEvent(event) {\n  if (claims) {\n    return { t: 1 };\n  }\n}\nasync function getUserInfoFromEvent(event) {\n  if (claims) {\n    return { t: 2 };\n  }\n}\n",
     "async function getUserInfoFromEvent(event) {\n  const o = {};\n  if (claims) {\n    return { t: o };\n  }\n}\n",
     "exports.handler = async (event) => {};\n"}

InitRerun ==
    /\ script = "fix_tenant_lookup"
    /\ orig = ""
    /\ content = ""
    /\ prev = ""
    /\ ret = 0
    /\ wrote = FALSE
    /\ runs = 0
    /\ faults \in [ServiceSet -> {"ok", "missing"}]
    /\ files0 \in [ServiceSet -> RerunTexts \cup {""}]
    /\ \A s \in ServiceSet : (files0[s] = "") = (faults[s] = "missing")
    /\ files = files0
    /\ todo = services \o services
    /\ results = [s \in ServiceSet |-> 0]
    /\ opened = {}
    /\ errors = {}
    /\ total_files = 0
    /\ total_changes = 0
    /\ updated_files = <<>>
    /\ called = {}
    /\ aborted = FALSE

SpecRerun == InitRerun /\ [][NextTenant]_vars

(***************************************************************************)
(* update-config-service.py on index.js files with and without the old     *)
(* handlers.                                                               *)
(***************************************************************************)
ConfigFrags == {old_handlers, new_handlers, SubSeq(old_handlers, 1, Len(old_handlers) - 1),
                "const HEADERS = {};\n", "const pool = getPool();\r\n", "\n"}

ConfigTexts == Concats(ConfigFrags, MaxFrags) \ {""}

InitConfig == OneFile({"update_config_service"} \X ConfigTexts)

Run_update_config_service ==
    \E linesep \in LineSeps :
        Run("update_config_service",
            LET out == update_config_service(content, linesep)
            IN  Outcome(out.file, out, TRUE, FALSE))

NextConfig == Run_update_config_service

SpecConfig == InitConfig /\ [][NextConfig]_vars
(***************************************************************************)
(* Properties of the scripts.                                              *)
(***************************************************************************)
\* number of places of t at which the literal p occurs
Occurrences(t, p) == Cardinality({i \in 1..Len(t) : LitAt(t, i, p)})

\* the places of t at which class occurs between two word boundaries
WordOccurrences(t, class) ==
    {i \in 1..Len(t) : /\ LitAt(t, i, class)
                       /\ WordBoundary(t, i)
                       /\ WordBoundary(t, i + Len(class))}

\* number of elements of S before i
Rank(S, i) == Cardinality({j \in S : j < i})

\* C1: idempotence of the lookahead-guarded whole-file rule tables: once
\* update_file of fix_all_dark_mode, fix_theme_system_complete,
\* fix_colored_backgrounds or fix_all_features has been applied to a text,
\* every further application performs zero substitutions (it returns 0, or
\* False for fix_all_features) and leaves the text as the first one left it.
C1_TableIdempotence ==
    (/\ script \in {"fix_all_dark_mode", "fix_theme_system_complete",
                    "fix_colored_backgrounds", "fix_all_features"}
     /\ runs >= 2)
    => /\ content = prev
       /\ ret = (IF script = "fix_all_features" THEN FALSE ELSE 0)

\* C2: idempotence of fix_gradients_and_special_backgrounds: fix_line applied
\* to the output of a previous fix_line call returns the same text and
\* reports changed = False.
C2_GradientIdempotence ==
    (script = "fix_gradients_fix_line" /\ runs >= 2)
    => /\ content = prev
       /\ ret = FALSE

\* C3: idempotence of the marker-guarded scripts: fix_line of
\* fix_theme_line_by_line applied to its own output, and process_classname
\* of fix_all_theme_issues_complete applied to its own output, return the
\* same text and report no change.
C3_MarkerIdempotence ==
    (/\ script \in {"fix_theme_line_by_line_fix_line", "process_classname"}
     /\ runs >= 2)
    => /\ content = prev
       /\ ret = FALSE

C4_Input == "class=\"bg-white\""

C4_Output == "class=\"bg-white dark:bg-surface-primary\""

\* C4: end to end, on the text class="bg-white" the bg-white rule produces
\* class="bg-white dark:bg-surface-primary" with a change count of exactly 1
\* (update_file of fix_all_dark_mode returns 1, fix_line of
\* fix_theme_line_by_line reports a change), and every further application
\* to that output changes nothing and counts 0 (reports no change).
C4_EndToEnd ==
    (/\ orig = C4_Input
     /\ script \in {"fix_all_dark_mode", "fix_theme_line_by_line_fix_line"}
     /\ runs >= 1)
    => /\ content = C4_Output
       /\ runs = 1 => /\ prev = C4_Input
                      /\ ret = (IF script = "fix_all_dark_mode" THEN 1 ELSE TRUE)
       /\ runs >= 2 => /\ prev = C4_Output
                       /\ ret = (IF script = "fix_all_dark_mode" THEN 0 ELSE FALSE)

C4_Witness ==
    /\ orig = C4_Input
    /\ script = "fix_all_dark_mode"
    /\ runs = 2
    /\ prev = C4_Output
    /\ content = C4_Output
    /\ ret = 0

C5_Colors ==
    {"slate", "zinc", "neutral", "stone", "red", "orange", "amber", "yellow", "lime",
     "green", "emerald", "teal", "cyan", "sky", "blue", "indigo", "violet", "purple",
     "fuchsia", "pink", "rose"}

\* the word-bounded occurrences of bg-c-50 of the text before are those of
\* the text after, in the same order, and each one that whitespace and
\* 'dark:' did not follow is now followed by ' dark:bg-surface-primary'
C5_Rewritten(before, after, c) ==
    LET light == "bg-" \o c \o "-50"
        A == WordOccurrences(before, light)
        B == WordOccurrences(after, light)
    IN  /\ Cardinality(A) = Cardinality(B)
        /\ \A i \in A :
              ~WsDarkAt(before, i + Len(light)) =>
                  \E p \in B : /\ Rank(B, p) = Rank(A, i)
                               /\ LitAt(after, p, light \o " dark:bg-surface-primary")

\* C5: multi-color alternation: for every color c of the alternation,
\* update_file of fix_theme_system_complete rewrites a word-bounded bg-c-50
\* that whitespace and 'dark:' do not follow into
\* 'bg-c-50 dark:bg-surface-primary' with the same color c; class="bg-c-50"
\* becomes class="bg-c-50 dark:bg-surface-primary".
C5_Alternation ==
    (script = "fix_theme_system_complete" /\ runs >= 1)
    => \A c \in C5_Colors :
          /\ C5_Rewritten(prev, content, c)
          /\ prev = "class=\"bg-" \o c \o "-50\""
                => content = "class=\"bg-" \o c \o "-50 dark:bg-surface-primary\""

C5_Witness ==
    /\ script = "fix_theme_system_complete"
    /\ runs = 1
    /\ prev = "class=\"bg-blue-50\""
    /\ content = "class=\"bg-blue-50 dark:bg-surface-primary\""

\* the rules from the k-th on, applied in order to line as fix_line applies
\* them, end in the text after: a rule whose dark class the line it is
\* given contains leaves that line as it is
RECURSIVE C6_Suppressed(_, _, _)
C6_Suppressed(k, line, after) ==
    IF k > Len(THEME_PAIRS) THEN line = after
    ELSE LET next == PairStep(THEME_PAIRS[k], line)
         IN  /\ Contains(line, THEME_PAIRS[k].dark) => next = line
             /\ C6_Suppressed(k + 1, next, after)

\* C6: guard suppression in fix_line of fix_theme_line_by_line: a rule of
\* THEME_PAIRS makes no change to a line that already contains the rule's
\* dark class anywhere, before or after the light class, adjacent or not;
\* the dark class of such a rule occurs in the output as often as in the
\* input.
C6_GuardSuppression ==
    (script = "fix_theme_line_by_line_fix_line" /\ runs >= 1)
    => /\ C6_Suppressed(1, prev, content)
       /\ \A k \in 1..Len(THEME_PAIRS) :
             Contains(prev, THEME_PAIRS[k].dark) =>
                 Occurrences(content, THEME_PAIRS[k].dark)
                     = Occurrences(prev, THEME_PAIRS[k].dark)

C6_Witness ==
    /\ script = "fix_theme_line_by_line_fix_line"
    /\ runs = 1
    /\ prev = "dark:bg-surface-primary bg-white"
    /\ content = prev
    /\ ret = FALSE

\* '<input' opens the first line, which holds no className; the second
\* line holds className="..." with a border class and no bg- class
C7_SplitInput(t) ==
    LET lines == SplitLines(t)
    IN  /\ Len(lines) = 2
        /\ LitAt(lines[1], 1, "<input")
        /\ ~Contains(lines[1], "className")
        /\ LET c == Find(lines[2], "className=\"")
               q == FindFrom(lines[2], "\"", c + 11)
               classes == SubSeq(lines[2], c + 11, q - 1)
           IN  /\ c # 0
               /\ q # 0
               /\ Contains(classes, "border")
               /\ ~Contains(classes, "bg-")

\* C7: scope correctness: when '<input' is on one line and its
\* className="...border..." attribute, with no bg- class, on the following
\* line, the line-scoped tag rule of fix_all_dark_mode_issues makes zero
\* substitutions, and fix_file_content of fix_multiline_inputs makes exactly
\* one insertion of 'bg-white dark:bg-surface-primary' into that className.
C7_ScopeCorrectness ==
    (C7_SplitInput(orig) /\ runs = 1)
    => /\ script = "fix_all_dark_mode_issues" =>
             /\ \A i \in 1..Len(SplitLines(orig)) :
                   LineTagLoop(1, SplitLines(orig)[i]) = SplitLines(orig)[i]
             /\ Occurrences(content, "bg-white dark:bg-surface-primary") = 0
       /\ script = "fix_multiline_inputs" =>
             /\ Occurrences(content, "bg-white dark:bg-surface-primary") = 1
             /\ content = ReplaceFirst(orig, "className=\"",
                                       "className=\"bg-white dark:bg-surface-primary ")

\* the rule of the table whose pattern is \bpat\b(?!\s+dark:)
C8_Index(table, pat) == CHOOSE k \in 1..Len(table) : table[k].pre = pat

\* in table the bg-gray-50 rule precedes the hover:bg-gray-50 rule, and on
\* a text the hover rule matches the two rules give different texts in the
\* two orders
C8_OrderMatters(table, before, after) ==
    LET b == C8_Index(table, "bg-gray-50")
        h == C8_Index(table, "hover:bg-gray-50")
        bh == Sub(table[h], Sub(table[b], before))
        hb == Sub(table[b], Sub(table[h], before))
    IN  /\ b < h
        /\ FindAllCount(table[h], before) > 0 => bh # hb
        /\ before = "hover:bg-gray-50" =>
              /\ after = "hover:bg-gray-50 dark:bg-surface-secondary"
              /\ FindAllCount(table[h], Sub(table[b], before)) = 0
              /\ bh = after
              /\ hb = "hover:bg-gray-50 dark:hover:bg-surface-secondary"

\* C8: order sensitivity: in the tables of fix_theme_system_complete and
\* fix_all_features the bg-gray-50 rule precedes the hover:bg-gray-50 rule;
\* on 'hover:bg-gray-50' the later rule sees the text the earlier one has
\* rewritten and no longer matches, and the same two rules in swapped order
\* give a different text.
C8_OrderSensitivity ==
    /\ (script = "fix_theme_system_complete" /\ runs >= 1) =>
          C8_OrderMatters(fix_theme_system_complete_replacements, prev, content)
    /\ (script = "fix_all_features" /\ runs >= 1) =>
          C8_OrderMatters(fix_all_features_substitutions, prev, content)

C8_Witness ==
    /\ script = "fix_theme_system_complete"
    /\ runs = 1
    /\ prev = "hover:bg-gray-50"
    /\ content = "hover:bg-gray-50 dark:bg-surface-secondary"

\* the substitutions a pass of the rules from the k-th on performs on
\* text: a substitution of a rule lengthens the text by the difference
\* between the rule's replacement and its pattern
RECURSIVE C9_Performed(_, _, _)
C9_Performed(rules, k, text) ==
    IF k > Len(rules) THEN 0
    ELSE LET new == Sub(rules[k], text)
             grown == Len(new) - Len(text)
         IN  (grown \div (Len(Render(rules[k], 1)) - MatchLen(rules[k], 1)))
                 + C9_Performed(rules, k + 1, new)

C9_Table(name) ==
    IF name = "fix_all_dark_mode" THEN fix_all_dark_mode_replacements
    ELSE IF name = "update_dark_mode" THEN update_dark_mode_REPLACEMENTS
    ELSE update_all_features_REPLACEMENTS

\* C9: change count: the number update_file returns equals the number of
\* substitutions performed over all rules of the pass, and an occurrence the
\* 'dark:' lookahead suppresses is not counted; for the re.subn count of
\* fix_all_dark_mode and for the re.findall count of update_dark_mode and
\* update_all_features.
C9_ChangeCount ==
    (/\ script \in {"fix_all_dark_mode", "update_dark_mode", "update_all_features"}
     /\ runs >= 1)
    => /\ ret = C9_Performed(C9_Table(script), 1, prev)
       /\ prev = "bg-white dark:bg-surface-primary bg-white" =>
             /\ ret = 1
             /\ content = "bg-white dark:bg-surface-primary bg-white dark:bg-surface-primary"

C9_Witness ==
    /\ script = "update_dark_mode"
    /\ runs = 1
    /\ prev = "bg-white dark:bg-surface-primary bg-white"
    /\ ret = 1

\* the files the walk has been through
Visited == {p \in PathSet : \A i \in 1..Len(todo) : todo[i] # p}

\* the value of the className attribute of t that spans the positions p..e
C10_Value(t, p, e) ==
    IF Ch(t, p + 10) = "\"" THEN SubSeq(t, p + 11, e - 1) ELSE SubSeq(t, p + 12, e - 2)

\* no rule of the script fires in the text t
C10_NoRuleFires(name, t) ==
    IF name = "fix_all_dark_mode"
    THEN \A k \in 1..Len(fix_all_dark_mode_replacements) :
            Search(fix_all_dark_mode_replacements[k], t) = 0
    ELSE IF name = "fix_theme_line_by_line"
    THEN \A i \in 1..Len(ReadLines(t)), k \in 1..Len(THEME_PAIRS) :
            ~PairFires(THEME_PAIRS[k], ReadLines(t)[i])
    ELSE \A p \in 1..Len(t), k \in 1..Len(THEME_MAPPINGS) :
            ClassNameEnd(t, p) # 0 =>
                ~PairFires(THEME_MAPPINGS[k], C10_Value(t, p, ClassNameEnd(t, p)))

C10_Updated == {updated_files[i][1] : i \in 1..Len(updated_files)}

\* C10: zero-match files are left alone: a file the walk has been through
\* and in which no rule fires was not opened for writing, update_file /
\* fix_file returned 0 for it without reporting an error, and it is not
\* among the updated files; a file is written exactly when the value
\* returned for it is not 0, and it is then among the updated files.
C10_ZeroMatchLeftAlone ==
    /\ total_files = Len(updated_files)
    /\ \A p \in Visited :
          /\ (C10_NoRuleFires(script, files0[p]) /\ faults[p] # "read") =>
                /\ p \notin opened
                /\ results[p] = 0
                /\ p \notin errors
                /\ p \notin C10_Updated
          /\ p \in opened <=> results[p] # 0
          /\ p \in C10_Updated <=> results[p] # 0
          /\ p \notin opened => files[p] = files0[p]

C10_Witness ==
    \E p, q \in Visited :
        /\ ~IsTestPath(p)
        /\ Contains(files0[p], "bg-white")
        /\ C10_NoRuleFires(script, files0[p])
        /\ faults[p] = "ok"
        /\ results[p] = 0
        /\ p \notin opened
        /\ q \in opened
        /\ results[q] > 0


\* the paths the loop of main() of the script leaves out
C11_Skipped(name) ==
    IF name = "update_all_features"
    THEN {p \in PathSet : ~should_process(p)}
    ELSE {p \in PathSet : IsTestPath(p)}

\* update_file / fix_file of the script on the text t of a file without fault
C11_Alone(name, t) ==
    IF name = "fix_all_dark_mode" THEN fix_all_dark_mode_update_file(t, "ok")
    ELSE IF name = "fix_gradients" THEN fix_gradients_fix_file(t, "ok")
    ELSE IF name = "fix_hover_dark_syntax" THEN fix_hover_dark_syntax_fix_file(t, "ok")
    ELSE update_all_features_update_file(t, "ok")

\* C11: per-file failure isolation in the directory-walking scripts: no
\* exception leaves update_file / fix_file, so the loop of main() is never
\* left early and calls it for every file it has been through and does not
\* skip; a file whose read fails, or whose write fails, is reported as an
\* error, gets the value 0, is not among the updated files and is left as it
\* was; every other file gets the outcome it would get on its own.
C11_FailureIsolation ==
    /\ ~aborted
    /\ Visited \ C11_Skipped(script) = called
    /\ \A p \in called :
          LET alone == C11_Alone(script, files0[p])
              failed == faults[p] = "read" \/ (faults[p] = "write" /\ alone.wrote)
          IN  IF failed
              THEN /\ p \in errors
                   /\ results[p] = 0
                   /\ p \notin C10_Updated
                   /\ p \notin opened
                   /\ files[p] = files0[p]
              ELSE /\ p \notin errors
                   /\ results[p] = alone.ret
                   /\ files[p] = alone.content
                   /\ (p \in opened) = alone.wrote

C11_Witness ==
    /\ script = "fix_hover_dark_syntax"
    /\ todo = <<>>
    /\ faults["features/a.jsx"] = "read"
    /\ "features/a.jsx" \in errors
    /\ faults["features/b.jsx"] = "ok"
    /\ "features/b.jsx" \in opened
    /\ results["features/b.jsx"] = 1
    /\ total_files = 1

\* C15: test files are never touched: in the walk of every script, a file
\* whose path contains '__tests__' or '.test.' is never handed to
\* update_file / fix_file (so never read), never opened for writing, and
\* holds the text it held before the walk.
C15_TestFilesUntouched ==
    \A p \in PathSet :
        IsTestPath(p) => /\ p \notin called
                         /\ p \notin opened
                         /\ files[p] = files0[p]

\* C12: per-file failure isolation in fix-tenant-lookup.py: a failure to
\* read or write the index.js of one service does not end the loop: the
\* loop is never left by an exception, and once it is over every service
\* whose file exists has been processed.
C12_TenantIsolation ==
    /\ ~aborted
    /\ todo = <<>> => called = {s \in ServiceSet : faults[s] # "missing"}

\* C14: malformed input is not matched: on a text whose className="
\* attribute has no closing quote of its own, whatever follows it, a run of
\* fix_all_missing_backgrounds_final, fix_all_dark_mode_issues or
\* fix_multiline_inputs makes no substitution: the text is left as it was
\* and the file is not written.
C14_MalformedNotMatched ==
    runs > 0 => (content = prev /\ ~wrote)

\* the httpApi.addRoutes({...}); calls of the text t, in order
RECURSIVE C16_Calls(_)
C16_Calls(t) ==
    LET e == FindFrom(t, "});\n", 1)
    IN  IF e = 0 THEN <<>>
        ELSE <<SubSeq(t, 1, e + 3)>> \o C16_Calls(SubSeq(t, e + 4, Len(t)))

\* C16: fix-authorizers.py protects all authenticated routes: after the
\* script has run, every httpApi.addRoutes({...}) call of the file that is
\* not an OPTIONS route and not one of the public /auth/ routes contains an
\* 'authorizer:' property.
C16_AllRoutesProtected ==
    runs > 0 =>
        \A n \in 1..Len(C16_Calls(content)) :
            LET call == C16_Calls(content)[n]
            IN  (/\ LitAt(call, 1, "httpApi.addRoutes({")
                 /\ ~Contains(call, "OPTIONS")
                 /\ \A path \in public_paths : ~Contains(call, path))
                => Contains(call, "authorizer:")

\* an occurrence of hover:text-gray-<digits>, whitespace, dark:text- starts
\* at position i of t: the positions <<d, s>> at which the whitespace and
\* dark:text- start, <<0, 0>> when there is none
C17_Occurrence(t, i) ==
    LET ds == {d \in (i + 17)..Len(t) :
                  /\ \A j \in (i + 16)..(d - 1) : Ch(t, j) \in Digits
                  /\ Ch(t, d) \in SpaceChars}
        d == IF ds = {} THEN 0 ELSE Min(ds)
        ss == {s \in (d + 1)..Len(t) :
                  /\ \A j \in d..(s - 1) : Ch(t, j) \in SpaceChars
                  /\ LitAt(t, s, "dark:text-")}
    IN  IF LitAt(t, i, "hover:text-gray-") /\ d # 0 /\ ss # {}
        THEN <<d, Min(ss)>> ELSE <<0, 0>>

\* the line t from position i on with every occurrence rewritten to
\* hover:text-gray-<digits> dark:hover:text-, and nothing else changed
RECURSIVE C17_Rewritten(_, _, _)
C17_Rewritten(t, i, out) ==
    LET hits == {p \in i..Len(t) : C17_Occurrence(t, p)[1] # 0}
    IN  IF hits = {} THEN out \o SubSeq(t, i, Len(t))
        ELSE LET p == Min(hits)
                 oc == C17_Occurrence(t, p)
                 new == out \o SubSeq(t, i, oc[1] - 1) \o " dark:hover:text-"
             IN  IF new = "" THEN C17_Rewritten(t, oc[2] + 10, "")
                 ELSE C17_Rewritten(t, oc[2] + 10, new)

\* C17: fix_hover_dark_syntax result: the line returned is the given line
\* with each occurrence of hover:text-gray-<digits>, whitespace, dark:text-
\* rewritten to hover:text-gray-<digits> dark:hover:text- and nothing else
\* changed; changed tells whether the line differs, so a line without an
\* occurrence is returned unchanged with changed = FALSE.
C17_HoverResult ==
    runs > 0 => /\ content = C17_Rewritten(prev, 1, "")
                /\ ret = (content # prev)

\* every pair of the table whose light pattern matches in t has its dark
\* class in t
C18_Paired(pairs, t) ==
    \A k \in 1..Len(pairs) :
        Search(pairs[k].pat, t) # 0 => Contains(t, pairs[k].dark)

\* C18: every light color gets its dark pair on the same line: in the line
\* returned by fix_line, every THEME_PAIRS entry whose light pattern matches
\* somewhere in the returned line has its dark class in the returned line,
\* and likewise for process_classname and THEME_MAPPINGS within one
\* className value.
C18_DarkPairOnLine ==
    /\ (script = "fix_theme_line_by_line_fix_line" /\ runs > 0)
           => C18_Paired(THEME_PAIRS, content)
    /\ (script = "process_classname" /\ runs > 0)
           => C18_Paired(THEME_MAPPINGS, content)

\* the classes of the className value c, which are separated by spaces
RECURSIVE C19_Classes(_)
C19_Classes(c) ==
    LET p == FindFrom(c, " ", 1)
    IN  IF p = 0 THEN IF c = "" THEN {} ELSE {c}
        ELSE (IF p = 1 THEN {} ELSE {SubSeq(c, 1, p - 1)})
                 \cup C19_Classes(SubSeq(c, p + 1, Len(c)))

\* a directional border class: border-t, border-b, border-l, border-r, with
\* or without a width
C19_Directional(class) ==
    \E d \in {"t", "b", "l", "r"} :
        class = "border-" \o d \/ LitAt(class, 1, "border-" \o d \o "-")

\* the className value c is a pure divider
C19_PureDivider(c) ==
    /\ \E class \in C19_Classes(c) : C19_Directional(class)
    /\ ~Contains(c, "border border-")
    /\ \A marker \in {"px-", "py-", "pl-", "pr-", "rounded-md", "rounded-lg", "w-full"} :
           ~Contains(c, marker)

C19_Rewrite(c) ==
    Contains(c, "border") /\ ~Contains(c, "bg-") /\ ~C19_PureDivider(c)

\* the text t from position i on, with the value of each className="..."
\* attribute that is to be rewritten prefixed by the background classes
RECURSIVE C19_Expected(_, _, _)
C19_Expected(t, i, out) ==
    LET p == FindFrom(t, "className=\"", i)
        e == IF p = 0 THEN 0 ELSE FindFrom(t, "\"", p + 11)
    IN  IF e = 0 THEN out \o SubSeq(t, i, Len(t))
        ELSE LET c == SubSeq(t, p + 11, e - 1)
                 new == out \o SubSeq(t, i, p + 10)
                            \o (IF C19_Rewrite(c) THEN "bg-white dark:bg-surface-primary " ELSE "")
                            \o SubSeq(t, p + 11, e)
             IN  IF new = "" THEN C19_Expected(t, e + 1, "") ELSE C19_Expected(t, e + 1, new)

C20_Step(pr, line) ==
    IF PairFires(pr, line)
    THEN LET p == Search(pr.pat, line)
             e == p + MatchLen(pr.pat, MatchAlt(pr.pat, line, p)) - 1
         IN  SubSeq(line, 1, e) \o " " \o pr.dark \o SubSeq(line, e + 1, Len(line))
    ELSE line

RECURSIVE C20_Loop(_, _, _)
C20_Loop(pairs, k, line) ==
    IF k > Len(pairs) THEN line
    ELSE LET next == C20_Step(pairs[k], line)
         IN  IF next = line THEN C20_Loop(pairs, k + 1, line)
             ELSE C20_Loop(pairs, k + 1, next)

\* C20: insertion position in the marker-guarded scripts: each rule of
\* fix_line / process_classname that fires puts its dark class directly
\* after the light class its word-boundary pattern matched and leaves the
\* rest of the line as it is, so a longer class that holds the light class
\* as a prefix or suffix (bg-gray-500 before bg-gray-50) is not altered.
C20_InsertionPosition ==
    /\ (script = "fix_theme_line_by_line_fix_line" /\ runs > 0)
           => content = C20_Loop(THEME_PAIRS, 1, prev)
    /\ (script = "process_classname" /\ runs > 0)
           => content = C20_Loop(THEME_MAPPINGS, 1, prev)

\* the places of t at which the rule for the hover class fires: the class
\* between word boundaries, not followed by whitespace and dark:
C21_Unpaired(t, class) == FindAllCount(GuardedRule(class, ""), t)

\* C21: hover rules of the lookahead tables: a run of update_file of
\* fix_theme_system_complete or fix_all_features rewrites every
\* 'hover:bg-gray-50' that is not already followed by a dark: class into
\* 'hover:bg-gray-50 dark:hover:bg-surface-secondary': the text gains one
\* hover-specific pair for each such occurrence.
C21_HoverRules ==
    (script \in {"fix_theme_system_complete", "fix_all_features"} /\ runs > 0) =>
        Occurrences(content, "hover:bg-gray-50 dark:hover:bg-surface-secondary")
            >= Occurrences(prev, "hover:bg-gray-50 dark:hover:bg-surface-secondary")
                   + C21_Unpaired(prev, "hover:bg-gray-50")

\* C22: no duplicate companion in the lookahead-guarded tables: in a class
\* list that holds bg-white once with its dark class dark:bg-surface-primary
\* somewhere in the list, bg-white is left as it is, so after any number of
\* runs of fix_all_dark_mode, fix_all_features, fix_ui_components or
\* fix_theme_system_complete the dark class does not occur twice.
C22_NoDuplicateCompanion ==
    (/\ Cardinality(WordOccurrences(orig, "bg-white")) = 1
     /\ Occurrences(orig, "dark:bg-surface-primary") = 1)
        => Occurrences(content, "dark:bg-surface-primary") = 1

\* the statements of the stack file t, each up to the end of its line
RECURSIVE C23_Parts(_)
C23_Parts(t) ==
    LET e == FindFrom(t, ";\n", 1)
    IN  IF e = 0 THEN <<>>
        ELSE <<SubSeq(t, 1, e + 1)>> \o C23_Parts(SubSeq(t, e + 2, Len(t)))

\* the statement is an httpApi.addRoutes call that has to get an authorizer
C23_Authenticated(part) ==
    /\ Contains(part, "httpApi.addRoutes({")
    /\ ~Contains(part, "OPTIONS")
    /\ \A path \in {"/auth/login", "/auth/signup", "/auth/register", "/auth/refresh",
                    "/auth/logout"} : ~Contains(part, path)
    /\ ~Contains(part, "authorizer:")

\* C23: fix-authorizers.py leaves public routes public: a run writes back
\* unchanged every httpApi.addRoutes call that contains 'OPTIONS', one of
\* the public /auth/ paths or already an 'authorizer:' property, and every
\* statement that is no httpApi.addRoutes call.
C23_PublicRoutesUnchanged ==
    runs > 0 =>
        /\ Len(C23_Parts(content)) = Len(C23_Parts(prev))
        /\ \A n \in 1..Len(C23_Parts(prev)) :
              ~C23_Authenticated(C23_Parts(prev)[n])
                  => C23_Parts(content)[n] = C23_Parts(prev)[n]

C23_Witness ==
    /\ runs = 1
    /\ Len(C23_Parts(prev)) = 2
    /\ Contains(C23_Parts(prev)[1], "/api/v1/auth/login")
    /\ ~Contains(C23_Parts(prev)[1], "authorizer:")
    /\ C23_Parts(content)[1] = C23_Parts(prev)[1]
    /\ C23_Authenticated(C23_Parts(prev)[2])
    /\ Contains(C23_Parts(content)[2], "authorizer: httpAuthorizer")

\* C24: fix-authorizers.py skips commented-out routes: an httpApi.addRoutes
\* call on a line that begins with '//' is not given an authorizer and is
\* written back unchanged.
C24_CommentedRoutesSkipped ==
    runs > 0 =>
        \A n \in 1..Len(C23_Parts(prev)) :
            LitAt(C23_Parts(prev)[n], 1, "//")
                => /\ n <= Len(C23_Parts(content))
                   /\ C23_Parts(content)[n] = C23_Parts(prev)[n]

\* C25: fix-authorizers.py is idempotent: a further run of the script
\* leaves the text as the run before left it, and no httpApi.addRoutes call
\* ever holds more than one 'authorizer:' property.
C25_AuthorizersIdempotent ==
    /\ runs > 1 => content = prev
    /\ \A n \in 1..Len(C23_Parts(content)) :
          Occurrences(C23_Parts(content)[n], "authorizer:") <= 1

C25_Witness ==
    /\ runs = 2
    /\ content = prev
    /\ content # orig
    /\ Len(C23_Parts(orig)) = 2
    /\ Contains(C23_Parts(orig)[1], "authorizer:")
    /\ C23_Authenticated(C23_Parts(orig)[2])
    /\ Occurrences(content, "authorizer:") = 2

\* the lines of the file t, each with the terminator it has in the file
C26_Lines(t) == ReadLines(t)

\* the terminator of a line of a file
C26_Terminator(l) ==
    IF Len(l) >= 2 /\ SubSeq(l, Len(l) - 1, Len(l)) = "\r\n" THEN "\r\n"
    ELSE IF Len(l) >= 1 /\ SubSeq(l, Len(l), Len(l)) = "\n" THEN "\n"
    ELSE ""

C26_Body(l) == SubSeq(l, 1, Len(l) - Len(C26_Terminator(l)))

\* the line function of the script on a line without its terminator
C26_Fixed(name, body) ==
    IF name = "fix_theme_line_by_line" THEN fix_theme_line_by_line_fix_line(body).line
    ELSE IF name = "fix_gradients" THEN fix_gradients_fix_line(body).line
    ELSE IF name = "fix_hover_dark_syntax" THEN fix_hover_dark_syntax(body).line
    ELSE fix_all_dark_mode_issues_fix_line(body)

\* C26: line-scope frame: fix_file of the line-scoped scripts writes back
\* the same number of lines, in the same order, each with the terminator it
\* had; each line of the output is what the line function gives for that
\* line alone, so a line on which no rule fires is byte-identical.
C26_LineScopeFrame ==
    runs > 0 =>
        /\ Len(C26_Lines(content)) = Len(C26_Lines(prev))
        /\ \A i \in 1..Len(C26_Lines(prev)) :
              C26_Lines(content)[i] =
                  C26_Fixed(script, C26_Body(C26_Lines(prev)[i]))
                      \o C26_Terminator(C26_Lines(prev)[i])

\* the four rules of fix_line guarded by 'dark:text-' not in line, in rule order
C27_Rules == << <<"text-white", "text-white dark:text-white">>,
                <<"text-gray-600", "text-gray-600 dark:text-text-secondary">>,
                <<"text-gray-700", "text-gray-700 dark:text-text-primary">>,
                <<"text-gray-800", "text-gray-800 dark:text-text-primary">> >>

\* the rules whose class has more dark variants after the call than before
C27_Got ==
    {k \in 1..Len(C27_Rules) :
        Occurrences(content, C27_Rules[k][2]) > Occurrences(prev, C27_Rules[k][2])}

\* the rules whose class stands in the line given without a dark variant
C27_Without ==
    {k \in 1..Len(C27_Rules) : FindAllCount(GuardedRule(C27_Rules[k][1], ""), prev) > 0}

C28_Light == <<"bg-gray-50", "bg-white", "border-gray-300", "border-gray-200">>

\* number of occurrences in t of the classes of C28_Light, from the k-th on,
\* that no dark: class follows
RECURSIVE C28_Unpaired(_, _)
C28_Unpaired(t, k) ==
    IF k > Len(C28_Light) THEN 0
    ELSE FindAllCount(GuardedRule(C28_Light[k], ""), t) + C28_Unpaired(t, k + 1)

\* number of dark classes bg-gray-50 has received since the file was given
C28_Received(dark) ==
    Occurrences(content, "bg-gray-50 " \o dark) - Occurrences(orig, "bg-gray-50 " \o dark)

\* C28: first writer wins: in any sequence of runs of fix_all_dark_mode,
\* fix_all_features, fix_theme_system_complete and fix_colored_backgrounds
\* over one text, each occurrence of a light class receives at most one dark
\* class, and no later run adds another; each bg-gray-50 standing without a
\* dark class receives dark:bg-surface-primary if fix_colored_backgrounds
\* runs first and dark:bg-surface-secondary if one of the others does.
C28_FirstWriterWins ==
    runs > 0 =>
        /\ Occurrences(content, "dark:") <= Occurrences(orig, "dark:") + C28_Unpaired(orig, 1)
        /\ C28_Received("dark:bg-surface-primary") =
              (IF script = "fix_colored_backgrounds"
               THEN FindAllCount(GuardedRule("bg-gray-50", ""), orig) ELSE 0)
        /\ C28_Received("dark:bg-surface-secondary") =
              (IF script = "fix_colored_backgrounds"
               THEN 0 ELSE FindAllCount(GuardedRule("bg-gray-50", ""), orig))

\* the part of C28 on bg-gray-50 alone
C28_GrayFifty ==
    runs > 0 =>
        /\ C28_Received("dark:bg-surface-primary") =
              (IF script = "fix_colored_backgrounds"
               THEN FindAllCount(GuardedRule("bg-gray-50", ""), orig) ELSE 0)
        /\ C28_Received("dark:bg-surface-secondary") =
              (IF script = "fix_colored_backgrounds"
               THEN 0 ELSE FindAllCount(GuardedRule("bg-gray-50", ""), orig))

\* number of iterations of the loop done for the service s
C29_Done(s) ==
    Cardinality({i \in 1..(2 * Len(services) - Len(todo)) : (services \o services)[i] = s})

\* the places of t at which the getUserInfoFromEvent pattern matches
C29_Matches(t) == {i \in 1..Len(t) : TenantMatchEnd(t, i) # 0}

\* t with the match of the pattern at i replaced by the fixed function
C29_Replaced(t, i) ==
    SubSeq(t, 1, i - 1) \o fixed_function \o SubSeq(t, TenantMatchEnd(t, i) + 1, Len(t))

\* C29: fix-tenant-lookup.py writes only on a match: the index.js of a
\* service is rewritten only if the getUserInfoFromEvent pattern is found in
\* it, and then its first occurrence alone is replaced by the fixed
\* function; a file that does not exist or does not hold the pattern is left
\* untouched and the loop goes on; a second run leaves every file as the
\* first run left it.
C29_WriteOnlyOnMatch ==
    /\ ~aborted
    /\ \A s \in ServiceSet :
          C29_Done(s) >= 1 =>
              IF C29_Matches(files0[s]) = {} THEN files[s] = files0[s]
              ELSE files[s] = C29_Replaced(files0[s], Min(C29_Matches(files0[s])))

\* the statement of C29 for the first run alone
C29_FirstRun ==
    /\ ~aborted
    /\ \A s \in ServiceSet :
          C29_Done(s) = 1 =>
              IF C29_Matches(files0[s]) = {} THEN files[s] = files0[s]
              ELSE files[s] = C29_Replaced(files0[s], Min(C29_Matches(files0[s])))

\* C30: update-config-service.py: when the old handlers are not in the
\* content read, the content written is the content read, 'Could not find
\* old handlers to replace' is printed, and the file is still written and
\* 'File updated successfully' printed; when they are, every occurrence is
\* replaced by the new handlers; the content written never holds the old
\* handlers, so a second run finds none and writes what it read.
C30_ConfigService ==
    runs > 0 =>
        /\ wrote
        /\ ret.printed[2] = "File updated successfully"
        /\ ret.read = TextRead(prev)
        /\ ~Contains(ret.read, old_handlers) =>
              /\ ret.written = ret.read
              /\ ret.printed[1] = "Could not find old handlers to replace"
        /\ Contains(ret.read, old_handlers) =>
              /\ ret.printed[1] = "Replaced package handlers successfully"
              /\ Occurrences(ret.written, new_handlers) =
                    Occurrences(ret.read, new_handlers) + Occurrences(ret.read, old_handlers)
              /\ Len(ret.written) = Len(ret.read) + Occurrences(ret.read, old_handlers)
                                        * (Len(new_handlers) - Len(old_handlers))
        /\ ~Contains(ret.written, old_handlers)
        /\ runs > 1 =>
              /\ ret.written = ret.read
              /\ ret.printed[1] = "Could not find old handlers to replace"

\* a second run after a run that replaced two occurrences of the old handlers
C30_Witness ==
    /\ runs = 2
    /\ Occurrences(orig, old_handlers) = 2
    /\ Occurrences(prev, new_handlers) = 2
    /\ ret.written = ret.read
    /\ ret.printed[1] = "Could not find old handlers to replace"
=============================================================================
